---------------------------- MODULE Spec2Model ----------------------------
(***************************************************************************)
(* A model of the jthread examples: the cooperative stop state behind a   *)
(* std::jthread (stop flag, callback registry), the worker classes built   *)
(* on it (ex5 SimpleWorkerThrad, ex7 WorkerThread) and the worker bodies.  *)
(*                                                                         *)
(* The library calls the sources make (request_stop, stop_callback's       *)
(* constructor and destructor, join, mutex lock/unlock, the condition      *)
(* variable waits) are modelled at their call sites with the behaviour     *)
(* C++20 [thread.stoptoken], [thread.jthread] and [thread.condition]       *)
(* give them.                                                              *)
(*                                                                         *)
(* Part 1 (SpecStop): one worker object with a polling body, its stop      *)
(* state and stop callbacks, driven by several calling threads.            *)
(* Part 2 (Spec, FairSpec, SpecMain): the ex7 pool: WorkerThread objects   *)
(* whose bodies consume one task queue under a mutex and a token-aware     *)
(* condition-variable wait, driven by one thread (main).                   *)
(* Part 3 (SpecCv, FairCv): the blocking worker of ex4 and ex6: a body     *)
(* waiting on a plain condition variable for its data or its stop, woken   *)
(* by the notify_all of its own stop callback.                             *)
(* Part 4 (SpecLife): the life of one worker object of ex5/ex7 under any   *)
(* sequence of start(), stop(block), join() and its destruction, with the  *)
(* bodies its start() calls spawn.                                         *)
(***************************************************************************)
EXTENDS Integers, Sequences, FiniteSets, TLC

(***************************************************************************)
(* Bounds of the model.                                                    *)
(***************************************************************************)
NCallers == 2
    \* threads that call the worker object's methods (main and one more)
NCallbacks == 3
    \* stop_callback objects: 1 is the body's own, the others are addCallback's
MaxCalls == 4
    \* method calls issued by the calling threads over a run

MaxThreads == 2
    \* largest pool size (threadCount) tried
MaxPush == 2
    \* tasks pushed over a run of the pool driven call by call
TasksPerThread == 1
    \* tasks main pushes per pool worker (the loop of ex7 pushes 10)
MaxSets == 2
    \* writes of the shared data over a run of a blocking worker
MaxStarts == 2
    \* start() calls on one worker object over a run

Callers == 1..NCallers
WorkerId == NCallers + 1
    \* thread id of the worker body (0 stands for no thread)
Callbacks == 1..NCallbacks
BodyCb == 1
    \* the stop_callback the body constructs
AddedCbs == Callbacks \ {BodyCb}

Min(a, b) == IF a < b THEN a ELSE b

VARIABLES
    started,     \* mThread was given a thread and a stop state (start())
    joinable,    \* mThread.joinable()
    destroyed,   \* the worker object's destructor has run
    requested,   \* the stop state's flag
    registry,    \* callbacks registered in the stop state, not yet run
    handle,      \* per stop_callback: "none", "alive", "dead"
    bound,       \* per stop_callback: constructed on a token with a stop state
    executing,   \* per stop_callback: the thread running its action, or 0
    runs,        \* per stop_callback: how often its action has run
    wpc,         \* position of the worker body
    dots,        \* dots the body printed since the winning request_stop returned
    cpc,         \* per calling thread: position inside its current call
    ccb,         \* per calling thread: the callback it is running
    cont,        \* per calling thread: what is left of its current call
    calls,       \* method calls issued so far
    won,         \* request_stop calls that performed the transition
    retTrue,     \* request_stop calls that have returned true
    retFalse,    \* request_stop calls that have returned false
    regStopped,  \* per stop_callback: constructed when stop was already requested
    killedEarly, \* per stop_callback: destroyed before any stop was requested
    killed,      \* per stop_callback: destroyed while still registered
    threw        \* a join() on a thread that is not joinable raised

VARIABLES
    mThread,      \* per pool worker: "none" (no thread, no stop state),
                  \* "running" (joinable), "joined"
    token,        \* per pool worker: the stop flag of mThread's stop state
    mFinishEarly, \* per pool worker: the constructor's finishEarly
    pc,           \* per pool worker: position of the body
    ret,          \* per pool worker: what cv.wait returned
    value,        \* per pool worker: the item taken from the queue
    taskQueue,    \* the queue of work items
    mutex,        \* holder of the queue mutex: 0, a worker, or MainId
    callbacks,    \* workers whose stop state holds the callback starting Extra
    mpc,          \* position of main
    marg,         \* the worker main's current call is about
    mblock,       \* main's current stop() call is blocking
    mret,         \* where main goes on when its current call returns
    threadCount,  \* the pool size main runs with
    idx,          \* main's loop counter
    pushed,       \* every item pushed so far, in order
    dequeued,     \* per pool worker: the items it has dequeued, in order
    latePush,     \* an item was pushed after some worker was started
    stopPops,     \* per pool worker: items dequeued while its stop was requested
    popEmpty,     \* front()/pop() was called on an empty queue
    joinThrew     \* mThread.join() raised (thread not joinable)

poolVars == <<mThread, token, mFinishEarly, pc, ret, value, taskQueue, mutex,
              callbacks, mpc, marg, mblock, mret, threadCount, idx, pushed,
              dequeued, latePush, stopPops, popEmpty, joinThrew>>

stopVars == <<started, joinable, destroyed, requested, registry, handle, bound,
              executing, runs, wpc, dots, cpc, ccb, cont, calls, won, retTrue,
              retFalse, regStopped, killedEarly, killed, threw>>

VARIABLES
    whileLoop,    \* the body's loop: TRUE the while of ex6, FALSE the
                  \* do-while of ex4
    bpc,          \* position of the blocking body
    done,         \* the body's local `done`
    cvMutex,      \* the data mutex is held (by the body)
    cvData,       \* blockingRes (ex4), taskComplete() of mData (ex6)
    cvStop,       \* the flag of the thread's stop state
    cb,           \* the body's stop_callback: "none", "registered",
                  \* "running", "ran", "gone"
    cvMain,       \* position of main
    sets,         \* writes of the data so far
    dpc,          \* destruction of the ex6 worker object: "alive",
                  \* "derived" (the derived part is gone), "base" (the
                  \* destructor's stop() is done), "members" (mData, mCv
                  \* and mMutex are destroyed), "gone"
    useAfter      \* the body used a member or the override after its
                  \* destruction

cvVars == <<whileLoop, bpc, done, cvMutex, cvData, cvStop, cb, cvMain, sets,
            dpc, useAfter>>

VARIABLES
    lbody,        \* per spawned body: "none", "poll", "dot", "pause", "done"
    lflag,        \* per spawned body: the flag of its thread's stop state
    held,         \* the body whose thread and stop state mThread holds, or 0
    mJoinable,    \* mThread.joinable()
    lpc,          \* position of the thread that owns the worker object
    lblock,       \* the owner's current stop() call is blocking
    spawned,      \* bodies spawned so far
    tmp,          \* the body of the temporary jthread in start(), or 0
    earlyStop,    \* stop() was called when mThread had no stop state
    waited,       \* bodies on which a stop(true) has returned
    ltok,         \* the stop state each body's token refers to, or 0
    tokenPassed,  \* the body is handed its token (ex7), else reads mThread
    dtorAlive     \* the thread was running when the destructor began

lifeVars == <<lbody, lflag, held, mJoinable, lpc, lblock, spawned, tmp,
              earlyStop, waited, ltok, tokenPassed, dtorAlive>>

vars == <<stopVars, poolVars, cvVars, lifeVars>>

(***************************************************************************)
(* SpecStop: the state after the worker object's construction: no thread,  *)
(* no stop state (a default-constructed std::jthread).                     *)
(***************************************************************************)
StopInit ==
    /\ started = FALSE
    /\ joinable = FALSE
    /\ destroyed = FALSE
    /\ requested = FALSE
    /\ registry = {}
    /\ handle = [c \in Callbacks |-> "none"]
    /\ bound = [c \in Callbacks |-> FALSE]
    /\ executing = [c \in Callbacks |-> 0]
    /\ runs = [c \in Callbacks |-> 0]
    /\ wpc = "unstarted"
    /\ dots = 0
    /\ cpc = [t \in Callers |-> "idle"]
    /\ ccb = [t \in Callers |-> 0]
    /\ cont = [t \in Callers |-> <<>>]
    /\ calls = 0
    /\ won = 0
    /\ retTrue = 0
    /\ retFalse = 0
    /\ regStopped = [c \in Callbacks |-> FALSE]
    /\ killedEarly = [c \in Callbacks |-> FALSE]
    /\ killed = [c \in Callbacks |-> FALSE]
    /\ threw = FALSE

\* stop_token::stop_possible() of mThread.get_stop_token()
stop_possible == started

\* stop_token::stop_requested()
stop_requested == started /\ requested

\* A calling thread may issue a new method call.
CanCall(t) ==
    /\ cpc[t] = "idle"
    /\ ~destroyed
    /\ ~threw
    /\ calls < MaxCalls

\* Thread t goes on with what is left of its call: k is the rest.
Proceed(t, k) ==
    /\ cpc' = [cpc EXCEPT ![t] = IF k = <<>> THEN "idle" ELSE "cont"]
    /\ cont' = [cont EXCEPT ![t] = k]


(***************************************************************************)
(* std::jthread::request_stop() by thread t, k being the rest of t's call. *)
(* The flag is tested and set in one atomic step; the caller that set it   *)
(* then runs the registered callbacks (Sweep) before it returns true.      *)
(***************************************************************************)
RequestStopAlways(t, k) ==
    /\ requested' = TRUE
    /\ won' = Min(won + 1, 2)
    /\ cpc' = [cpc EXCEPT ![t] = "sweep"]
    /\ cont' = [cont EXCEPT ![t] = k]
    /\ UNCHANGED retFalse

RequestStop(t, k) ==
    IF requested
    THEN /\ retFalse' = Min(retFalse + 1, MaxCalls)
         /\ Proceed(t, k)
         /\ UNCHANGED <<requested, won>>
    ELSE /\ requested' = TRUE
         /\ won' = Min(won + 1, 2)
         /\ cpc' = [cpc EXCEPT ![t] = "sweep"]
         /\ cont' = [cont EXCEPT ![t] = k]
         /\ UNCHANGED retFalse

\* WorkerThread::start(): mThread = std::jthread(body). The calling threads
\* of this part start the worker once.
start(t) ==
    /\ CanCall(t)
    /\ ~started
    /\ calls' = calls + 1
    /\ started' = TRUE
    /\ joinable' = TRUE
    /\ wpc' = "reg"
    /\ UNCHANGED <<poolVars, cvVars, lifeVars>>
    /\ UNCHANGED <<destroyed, requested, registry, handle, bound, executing,
                   runs, dots, cpc, ccb, cont, won, retTrue, retFalse,
                   regStopped, killedEarly, killed, threw>>

\* WorkerThread::stop(block)
stop(t, block) ==
    /\ CanCall(t)
    /\ calls' = calls + 1
    /\ IF stop_possible
       THEN RequestStop(t, IF block THEN <<"join">> ELSE <<>>)
       ELSE UNCHANGED <<requested, won, retFalse, cpc, cont>>
    /\ UNCHANGED <<poolVars, cvVars, lifeVars>>
    /\ UNCHANGED <<started, joinable, destroyed, registry, handle, bound,
                   executing, runs, wpc, dots, ccb, retTrue, regStopped,
                   killedEarly, killed, threw>>

\* WorkerThread::join()
join(t) ==
    /\ CanCall(t)
    /\ calls' = calls + 1
    /\ IF joinable
       THEN Proceed(t, <<"join">>)
       ELSE UNCHANGED <<cpc, cont>>
    /\ UNCHANGED <<poolVars, cvVars, lifeVars>>
    /\ UNCHANGED <<started, joinable, destroyed, requested, registry, handle,
                   bound, executing, runs, wpc, dots, ccb, won, retTrue,
                   retFalse, regStopped, killedEarly, killed, threw>>

\* WorkerThread::~WorkerThread(): stop(), then the member mThread is
\* destroyed (~jthread: if joinable, request_stop() and join()). Only the
\* owning thread destroys the object, once, while no other call is running.
Destructor(t) ==
    /\ t = 1
    /\ cpc[t] = "idle"
    /\ ~destroyed
    /\ ~threw
    /\ \A u \in Callers : cpc[u] = "idle"
    /\ destroyed' = TRUE
    /\ IF stop_possible
       THEN RequestStop(t, <<"dtor">>)
       ELSE /\ Proceed(t, <<"dtor">>)
            /\ UNCHANGED <<requested, won, retFalse>>
    /\ UNCHANGED <<poolVars, cvVars, lifeVars>>
    /\ UNCHANGED <<started, joinable, registry, handle, bound, executing,
                   runs, wpc, dots, ccb, calls, retTrue, regStopped,
                   killedEarly, killed, threw>>

\* ~jthread(): if (joinable()) { request_stop(); join(); }
JthreadDtor(t) ==
    /\ cpc[t] = "cont"
    /\ Head(cont[t]) = "dtor"
    /\ IF joinable
       THEN RequestStop(t, <<"join">> \o Tail(cont[t]))
       ELSE /\ Proceed(t, Tail(cont[t]))
            /\ UNCHANGED <<requested, won, retFalse>>
    /\ UNCHANGED <<poolVars, cvVars, lifeVars>>
    /\ UNCHANGED <<started, joinable, destroyed, registry, handle, bound,
                   executing, runs, wpc, dots, ccb, calls, retTrue,
                   regStopped, killedEarly, killed, threw>>

\* A join() that lets go of the thread's stop state
JoinReturnsResets(t) ==
    /\ cpc[t] = "cont"
    /\ Head(cont[t]) = "join"
    /\ joinable
    /\ wpc = "done"
    /\ joinable' = FALSE
    /\ requested' = FALSE
    /\ Proceed(t, Tail(cont[t]))
    /\ UNCHANGED <<poolVars, cvVars, lifeVars>>
    /\ UNCHANGED <<started, destroyed, registry, handle, bound,
                   executing, runs, wpc, dots, ccb, calls, won, retTrue,
                   retFalse, regStopped, killedEarly, killed, threw>>

\* mThread.join() on a joinable thread: returns when the body has returned.
JoinReturns(t) ==
    /\ cpc[t] = "cont"
    /\ Head(cont[t]) = "join"
    /\ joinable
    /\ wpc = "done"
    /\ joinable' = FALSE
    /\ Proceed(t, Tail(cont[t]))
    /\ UNCHANGED <<poolVars, cvVars, lifeVars>>
    /\ UNCHANGED <<started, destroyed, requested, registry, handle, bound,
                   executing, runs, wpc, dots, ccb, calls, won, retTrue,
                   retFalse, regStopped, killedEarly, killed, threw>>

\* mThread.join() on a thread that is not joinable raises std::system_error.
JoinThrows(t) ==
    /\ cpc[t] = "cont"
    /\ Head(cont[t]) = "join"
    /\ ~joinable
    /\ threw' = TRUE
    /\ Proceed(t, <<>>)
    /\ UNCHANGED <<poolVars, cvVars, lifeVars>>
    /\ UNCHANGED <<started, joinable, destroyed, requested, registry, handle,
                   bound, executing, runs, wpc, dots, ccb, calls, won,
                   retTrue, retFalse, regStopped, killedEarly, killed>>


(***************************************************************************)
(* The sweep of the winning request_stop(): it takes the registered        *)
(* callbacks one at a time out of the registry and runs each on the        *)
(* calling thread; with none left it returns true.                         *)
(***************************************************************************)
SweepTake(t) ==
    /\ cpc[t] = "sweep"
    /\ \E c \in registry :
        /\ registry' = registry \ {c}
        /\ executing' = [executing EXCEPT ![c] = t]
        /\ ccb' = [ccb EXCEPT ![t] = c]
    /\ cpc' = [cpc EXCEPT ![t] = "incb"]
    /\ UNCHANGED <<poolVars, cvVars, lifeVars>>
    /\ UNCHANGED <<started, joinable, destroyed, requested, handle, bound,
                   runs, wpc, dots, cont, calls, won, retTrue, retFalse,
                   regStopped, killedEarly, killed, threw>>

SweepReturnEarly(t) ==
    /\ cpc[t] = "sweep"
    /\ retTrue' = Min(retTrue + 1, 2)
    /\ Proceed(t, cont[t])
    /\ UNCHANGED <<poolVars, cvVars, lifeVars>>
    /\ UNCHANGED <<started, joinable, destroyed, requested, registry, handle,
                   bound, executing, runs, wpc, dots, ccb, calls, won,
                   retFalse, regStopped, killedEarly, killed, threw>>

SweepReturn(t) ==
    /\ cpc[t] = "sweep"
    /\ registry = {}
    /\ retTrue' = Min(retTrue + 1, 2)
    /\ Proceed(t, cont[t])
    /\ UNCHANGED <<poolVars, cvVars, lifeVars>>
    /\ UNCHANGED <<started, joinable, destroyed, requested, registry, handle,
                   bound, executing, runs, wpc, dots, ccb, calls, won,
                   retFalse, regStopped, killedEarly, killed, threw>>

\* The callback's action returns on thread t: inside the sweep, or inside the
\* stop_callback constructor that found stop already requested.
CallbackReturns(t) ==
    /\ cpc[t] = "incb"
    /\ LET c == ccb[t] IN
        /\ runs' = [runs EXCEPT ![c] = Min(runs[c] + 1, 2)]
        /\ executing' = [executing EXCEPT ![c] = 0]
        /\ IF handle[c] = "ctor"
           THEN /\ handle' = [handle EXCEPT ![c] = "alive"]
                /\ Proceed(t, cont[t])
           ELSE /\ cpc' = [cpc EXCEPT ![t] = "sweep"]
                /\ UNCHANGED <<handle, cont>>
    /\ ccb' = [ccb EXCEPT ![t] = 0]
    /\ UNCHANGED <<poolVars, cvVars, lifeVars>>
    /\ UNCHANGED <<started, joinable, destroyed, requested, registry, bound,
                   wpc, dots, calls, won, retTrue, retFalse, regStopped,
                   killedEarly, killed, threw>>

(***************************************************************************)
(* The constructor of std::stop_callback on the worker's token, by thread  *)
(* t (0 < t <= NCallers) or by the body (WorkerId): no stop state: bound   *)
(* to nothing; stop already requested: the action runs now, on this        *)
(* thread; otherwise it is registered. Gives <<handle, in registry, runs   *)
(* now>> for callback c.                                                   *)
(***************************************************************************)
RegisterNoCheck == <<"alive", TRUE, FALSE>>

RegisterOnNoState ==
    IF requested THEN <<"ctor", FALSE, TRUE>>
    ELSE <<"alive", TRUE, FALSE>>

Register ==
    IF ~stop_possible THEN <<"alive", FALSE, FALSE>>
    ELSE IF requested THEN <<"ctor", FALSE, TRUE>>
    ELSE <<"alive", TRUE, FALSE>>

\* WorkerThread::addCallback(cb): new std::stop_callback(token, cb)
addCallback(t, c) ==
    /\ CanCall(t)
    /\ c \in AddedCbs
    /\ handle[c] = "none"
    /\ calls' = calls + 1
    /\ handle' = [handle EXCEPT ![c] = Register[1]]
    /\ bound' = [bound EXCEPT ![c] = stop_possible]
    /\ regStopped' = [regStopped EXCEPT ![c] = stop_requested]
    /\ registry' = IF Register[2] THEN registry \cup {c} ELSE registry
    /\ IF Register[3]
       THEN /\ executing' = [executing EXCEPT ![c] = t]
            /\ ccb' = [ccb EXCEPT ![t] = c]
            /\ cpc' = [cpc EXCEPT ![t] = "incb"]
            /\ cont' = [cont EXCEPT ![t] = <<>>]
       ELSE UNCHANGED <<executing, ccb, cpc, cont>>
    /\ UNCHANGED <<poolVars, cvVars, lifeVars>>
    /\ UNCHANGED <<started, joinable, destroyed, requested, runs, wpc, dots,
                   won, retTrue, retFalse, killedEarly, killed, threw>>

(***************************************************************************)
(* The destructor of std::stop_callback c: it deregisters c; while c's     *)
(* action is running on another thread it blocks until the action has      *)
(* returned. Gives the registry it leaves.                                  *)
(***************************************************************************)
DeregisterNot(c) == registry

Deregister(c) == registry \ {c}

\* The owner of an addCallback() result deletes it (ex5: the unique_ptr).
DestroyCallback(t, c) ==
    /\ cpc[t] = "idle"
    /\ ~threw
    /\ c \in AddedCbs
    /\ handle[c] = "alive"
    /\ executing[c] = 0
    /\ handle' = [handle EXCEPT ![c] = "dead"]
    /\ registry' = Deregister(c)
    /\ killed' = [killed EXCEPT ![c] = c \in registry]
    /\ killedEarly' = [killedEarly EXCEPT ![c] = ~requested]
    /\ UNCHANGED <<poolVars, cvVars, lifeVars>>
    /\ UNCHANGED <<started, joinable, destroyed, requested, bound, executing,
                   runs, wpc, dots, cpc, ccb, cont, calls, won, retTrue,
                   retFalse, regStopped, threw>>

(***************************************************************************)
(* The polling body (ex3 worker): it constructs its own stop_callback,     *)
(* polls the token, prints a dot and sleeps; once the token says stop it   *)
(* leaves the loop and returns, which destroys its stop_callback.          *)
(***************************************************************************)
WorkerRegister ==
    /\ wpc = "reg"
    /\ handle' = [handle EXCEPT ![BodyCb] = Register[1]]
    /\ bound' = [bound EXCEPT ![BodyCb] = TRUE]
    /\ regStopped' = [regStopped EXCEPT ![BodyCb] = stop_requested]
    /\ registry' = IF Register[2] THEN registry \cup {BodyCb} ELSE registry
    /\ executing' = [executing EXCEPT
                        ![BodyCb] = IF Register[3] THEN WorkerId ELSE 0]
    /\ wpc' = IF Register[3] THEN "incb" ELSE "poll"
    /\ UNCHANGED <<poolVars, cvVars, lifeVars>>
    /\ UNCHANGED <<started, joinable, destroyed, requested, runs, dots, cpc,
                   ccb, cont, calls, won, retTrue, retFalse, killedEarly,
                   killed, threw>>

WorkerCallbackReturns ==
    /\ wpc = "incb"
    /\ runs' = [runs EXCEPT ![BodyCb] = Min(runs[BodyCb] + 1, 2)]
    /\ executing' = [executing EXCEPT ![BodyCb] = 0]
    /\ handle' = [handle EXCEPT ![BodyCb] = "alive"]
    /\ wpc' = "poll"
    /\ UNCHANGED <<poolVars, cvVars, lifeVars>>
    /\ UNCHANGED <<started, joinable, destroyed, requested, registry, bound,
                   dots, cpc, ccb, cont, calls, won, retTrue, retFalse,
                   regStopped, killedEarly, killed, threw>>

\* A body that does not look at its token
WorkerPollBlind ==
    /\ wpc = "poll"
    /\ wpc' = "dot"
    /\ UNCHANGED <<poolVars, cvVars, lifeVars>>
    /\ UNCHANGED <<started, joinable, destroyed, requested, registry, handle,
                   bound, executing, runs, dots, cpc, ccb, cont, calls, won,
                   retTrue, retFalse, regStopped, killedEarly, killed, threw>>

\* while (!token.stop_requested())
WorkerPoll ==
    /\ wpc = "poll"
    /\ wpc' = IF stop_requested THEN "leave" ELSE "dot"
    /\ UNCHANGED <<poolVars, cvVars, lifeVars>>
    /\ UNCHANGED <<started, joinable, destroyed, requested, registry, handle,
                   bound, executing, runs, dots, cpc, ccb, cont, calls, won,
                   retTrue, retFalse, regStopped, killedEarly, killed, threw>>

\* DOT(foreground); sleep_for(delay)
WorkerDot ==
    /\ wpc = "dot"
    /\ dots' = IF retTrue > 0 THEN Min(dots + 1, 2) ELSE dots
    /\ wpc' = "poll"
    /\ UNCHANGED <<poolVars, cvVars, lifeVars>>
    /\ UNCHANGED <<started, joinable, destroyed, requested, registry, handle,
                   bound, executing, runs, cpc, ccb, cont, calls, won,
                   retTrue, retFalse, regStopped, killedEarly, killed, threw>>

\* The body returns: its local stop_callback is destroyed.
WorkerLeave ==
    /\ wpc = "leave"
    /\ executing[BodyCb] = 0
    /\ handle' = [handle EXCEPT ![BodyCb] = "dead"]
    /\ registry' = Deregister(BodyCb)
    /\ killed' = [killed EXCEPT ![BodyCb] = BodyCb \in registry]
    /\ killedEarly' = [killedEarly EXCEPT ![BodyCb] = ~requested]
    /\ wpc' = "done"
    /\ UNCHANGED <<poolVars, cvVars, lifeVars>>
    /\ UNCHANGED <<started, joinable, destroyed, requested, bound, executing,
                   runs, dots, cpc, ccb, cont, calls, won, retTrue, retFalse,
                   regStopped, threw>>

\* The steps of the body's own thread.
WorkerBody ==
    \/ WorkerRegister
    \/ WorkerCallbackReturns
    \/ WorkerPoll
    \/ WorkerDot
    \/ WorkerLeave

StopNext ==
    \/ \E t \in Callers : start(t)
    \/ \E t \in Callers, block \in BOOLEAN : stop(t, block)
    \/ \E t \in Callers : join(t)
    \/ \E t \in Callers : Destructor(t)
    \/ \E t \in Callers : JthreadDtor(t)
    \/ \E t \in Callers : JoinReturns(t)
    \/ \E t \in Callers : JoinThrows(t)
    \/ \E t \in Callers : SweepTake(t)
    \/ \E t \in Callers : SweepReturn(t)
    \/ \E t \in Callers : CallbackReturns(t)
    \/ \E t \in Callers, c \in Callbacks : addCallback(t, c)
    \/ \E t \in Callers, c \in Callbacks : DestroyCallback(t, c)
    \/ WorkerRegister
    \/ WorkerCallbackReturns
    \/ WorkerPoll
    \/ WorkerDot
    \/ WorkerLeave



(***************************************************************************)
(* Claims about the stop state (SpecStop).                                 *)
(***************************************************************************)

\* C1: of all request_stop() calls on the worker's stop state (stop(), a
\* later stop(), the destructor's stop() and ~jthread's, from one thread or
\* from several at once) exactly one performs the transition and returns
\* true, every other one returns false, and once a call has returned the
\* token says stop_requested().
C1_OneWinner ==
    /\ won <= 1
    /\ retTrue <= won
    /\ (retTrue + retFalse > 0 => won = 1)
    /\ (retTrue + retFalse > 0 => stop_requested)

\* C1 witness: the winning call has returned, two more calls returned false
\* and the destructor has run its stop().
C1_Witness ==
    /\ retTrue = 1
    /\ retFalse >= 2
    /\ destroyed
    /\ \A t \in Callers : cpc[t] = "idle"

\* A stop_callback whose constructor has returned.
Constructed(c) == handle[c] \in {"alive", "dead"}

C3_ImmediateOnce ==
    \A c \in Callbacks :
        regStopped[c] =>
            /\ c \notin registry
            /\ runs[c] <= 1
            /\ (handle[c] = "ctor" => executing[c] # 0 /\ runs[c] = 0)
            /\ (Constructed(c) => runs[c] = 1)

\* C3 witness: a callback added after the stop ran at once, and the
\* destructor's stop() and ~jthread's request_stop() came after it.
C3_Witness ==
    \E c \in AddedCbs :
        /\ regStopped[c]
        /\ handle[c] = "alive"
        /\ runs[c] = 1
        /\ destroyed
        /\ \A t \in Callers : cpc[t] = "idle"

\* C4: a stop_callback destroyed before any stop request never runs; one
\* destroyed at any time has either run once (it was no longer registered)
\* or never runs (it was deregistered); none runs twice.
C4_DestroyedNeverRuns ==
    \A c \in Callbacks :
        /\ runs[c] <= 1
        /\ (killedEarly[c] => runs[c] = 0)
        /\ (handle[c] = "dead" => c \notin registry /\ executing[c] = 0)
        /\ (handle[c] = "dead" /\ bound[c] =>
                \/ killed[c] /\ runs[c] = 0
                \/ ~killed[c] /\ runs[c] = 1)

\* C4 witness: one callback was destroyed before the stop, another was
\* deregistered during the stop transition, and the winning call returned.
C4_Witness ==
    \E c, d \in AddedCbs :
        /\ killedEarly[c] /\ bound[c]
        /\ killed[d] /\ ~killedEarly[d]
        /\ retTrue = 1


\* C23: a polling body sees a stop at its next poll: after the
\* request_stop() that performed the transition has returned the body
\* prints at most one further dot (the iteration in progress), and it then
\* leaves its loop and returns.
C23_StopSeenAtNextPoll ==
    /\ [](dots <= 1)
    /\ (retTrue > 0) ~> (wpc = "done")

\* The body was in an iteration when request_stop() returned, printed that
\* iteration's dot and has returned.
C23_Witness ==
    /\ retTrue > 0
    /\ dots = 1
    /\ wpc = "done"

\* C24: stop_requested() is monotonic: once it is true of the worker's
\* stop state no step (stop, join, addCallback, the destruction of a
\* callback or of the worker) makes it false again.
C24_Monotonic ==
    [][stop_requested => stop_requested']_vars

\* The stop is still seen after a blocking stop has joined the thread, the
\* body's callback was destroyed and a later stop() has returned false.
C24_Witness ==
    /\ stop_requested
    /\ ~joinable
    /\ handle[BodyCb] = "dead"
    /\ retFalse > 0

\* C33: a callback added with addCallback() to a worker that has not been
\* started is bound to no stop state: it is not run at registration and it
\* is never run afterwards, also not once the worker is started and stopped:
\* it is never registered, never executing, and its run count stays zero.
C33_UnboundNeverRuns ==
    \A c \in AddedCbs :
        (handle[c] # "none" /\ ~bound[c]) =>
            /\ handle[c] # "ctor"
            /\ c \notin registry
            /\ executing[c] = 0
            /\ runs[c] = 0

\* An unbound callback is still alive after the worker was started and a
\* request_stop() made the stop and finished its sweep.
C33_Witness ==
    \E c \in AddedCbs :
        /\ handle[c] = "alive"
        /\ ~bound[c]
        /\ started
        /\ requested
        /\ retTrue > 0
        /\ runs[c] = 0

(***************************************************************************)
(* Part 2: the ex7 pool.                                                   *)
(***************************************************************************)
Primaries == 1..MaxThreads
    \* the workers of main's vector `threads`
Extra == MaxThreads + 1
    \* main's extraThread
Workers == Primaries \cup {Extra}
MainId == -1
    \* main as a holder of the mutex

\* The state after the WorkerThread objects are constructed: no thread runs,
\* the queue is empty. fe is the constructors' finishEarly argument, tc the
\* threadCount of main, at the place where main is.
PoolInitWith(fe, tc, at) ==
    /\ mThread = [w \in Workers |-> "none"]
    /\ token = [w \in Workers |-> FALSE]
    /\ mFinishEarly = fe
    /\ pc = [w \in Workers |-> "idle"]
    /\ ret = [w \in Workers |-> FALSE]
    /\ value = [w \in Workers |-> 0]
    /\ taskQueue = <<>>
    /\ mutex = 0
    /\ callbacks = {}
    /\ mpc = at
    /\ marg = 0
    /\ mblock = FALSE
    /\ mret = "idle"
    /\ threadCount = tc
    /\ idx = 0
    /\ pushed = <<>>
    /\ dequeued = [w \in Workers |-> <<>>]
    /\ latePush = FALSE
    /\ stopPops = [w \in Workers |-> 0]
    /\ popEmpty = FALSE
    /\ joinThrew = FALSE

\* main's pool: every primary worker finishes early, extraThread does not.
MainFinishEarly == [w \in Workers |-> w # Extra]

\* The pool driven call by call: the finishEarly of each primary worker is
\* an input; Extra is main's extraThread.
PoolInit ==
    \E fe \in [Workers -> BOOLEAN] :
        /\ fe[Extra] = FALSE
        /\ PoolInitWith(fe, 0, "idle")

\* The waiters of cv: the bodies blocked in cv.wait.
Blocked == {w \in Workers : pc[w] = "blocked"}

\* cv.notify_all(): every blocked body is woken and has to take the mutex.
NotifyAll == [w \in Workers |-> IF pc[w] = "blocked" THEN "relock" ELSE pc[w]]

\* The body of w is inside cv.wait(lock, token, pred): for the duration of
\* that call the wait is registered on the token, and a stop request wakes
\* the waiters of cv.
InWait(w) == pc[w] \in {"blocked", "relock", "rewait"}

\* mThread.request_stop() on worker w: sets the flag once; a body inside
\* the token-aware wait is woken. Gives <<flag, pc, performed transition>>.
PoolRequestStopNoWake(w) == <<TRUE, pc, ~token[w]>>

PoolRequestStop(w) ==
    IF token[w] THEN <<TRUE, pc, FALSE>>
    ELSE <<TRUE, IF InWait(w) THEN NotifyAll ELSE pc, TRUE>>

\* WorkerThread::start (ex7): a new thread runs worker() with a fresh stop
\* state. The pool starts a worker object once.
StartWorker(w) ==
    /\ mThread[w] = "none"
    /\ mThread' = [mThread EXCEPT ![w] = "running"]
    /\ pc' = [pc EXCEPT ![w] = "lock"]
    /\ UNCHANGED token


(***************************************************************************)
(* The calls main makes on a WorkerThread. `after` is where main goes on   *)
(* when the call has returned.                                             *)
(***************************************************************************)

\* request_stop() returning before the callback has run
DoStopNoCallback(w, block, after) ==
    /\ IF mThread[w] = "none"
       THEN /\ mpc' = after
            /\ UNCHANGED <<token, pc, marg, mblock, mret>>
       ELSE /\ token' = [token EXCEPT ![w] = TRUE]
            /\ pc' = PoolRequestStop(w)[2]
            /\ IF block
               THEN /\ mpc' = "join"
                    /\ marg' = w
                    /\ mblock' = block
                    /\ mret' = after
               ELSE /\ mpc' = after
                    /\ UNCHANGED <<marg, mblock, mret>>
    /\ UNCHANGED <<mThread, mFinishEarly, ret, value, taskQueue, mutex,
                   callbacks, threadCount, pushed, dequeued,
                   latePush, stopPops, popEmpty, joinThrew>>

\* A stop() that runs the callback of the designated worker again when the
\* worker's stop was already requested
DoStopCallbackAgain(w, block, after) ==
    LET again == token[w] /\ w = (threadCount \div 2) + 1
        runCb == w \in callbacks \/ again
    IN  /\ IF mThread[w] = "none"
           THEN /\ mpc' = after
                /\ UNCHANGED <<token, pc, marg, mblock, mret>>
           ELSE /\ token' = [token EXCEPT ![w] = PoolRequestStop(w)[1]]
                /\ pc' = PoolRequestStop(w)[2]
                /\ IF runCb \/ block
                   THEN /\ mpc' = IF runCb THEN "callback" ELSE "join"
                        /\ marg' = w
                        /\ mblock' = block
                        /\ mret' = after
                   ELSE /\ mpc' = after
                        /\ UNCHANGED <<marg, mblock, mret>>
        /\ UNCHANGED <<mThread, mFinishEarly, ret, value, taskQueue, mutex,
                       callbacks, threadCount, pushed, dequeued,
                       latePush, stopPops, popEmpty, joinThrew>>

\* WorkerThread::stop(block), up to the return of request_stop()'s flag
\* step: without a stop state nothing happens; the call that performs the
\* transition next runs the callback registered on the state, if any; a
\* blocking call then joins.
DoStop(w, block, after) ==
    /\ IF mThread[w] = "none"
       THEN /\ mpc' = after
            /\ UNCHANGED <<token, pc, marg, mblock, mret>>
       ELSE /\ token' = [token EXCEPT ![w] = PoolRequestStop(w)[1]]
            /\ pc' = PoolRequestStop(w)[2]
            /\ IF (PoolRequestStop(w)[3] /\ w \in callbacks) \/ block
               THEN /\ mpc' = IF PoolRequestStop(w)[3] /\ w \in callbacks
                                THEN "callback" ELSE "join"
                    /\ marg' = w
                    /\ mblock' = block
                    /\ mret' = after
               ELSE /\ mpc' = after
                    /\ UNCHANGED <<marg, mblock, mret>>
    /\ UNCHANGED <<mThread, mFinishEarly, ret, value, taskQueue, mutex,
                   callbacks, threadCount, pushed, dequeued,
                   latePush, stopPops, popEmpty, joinThrew>>

\* A callback that returns without having started extraThread
RunCallbackNoStart ==
    /\ mpc = "callback"
    /\ callbacks' = callbacks \ {marg}
    /\ IF mblock
       THEN /\ mpc' = "join"
            /\ UNCHANGED <<marg, mblock, mret>>
       ELSE /\ mpc' = mret
            /\ marg' = 0
            /\ mblock' = FALSE
            /\ mret' = "idle"
    /\ UNCHANGED <<mThread, token, pc, mFinishEarly, ret, value, taskQueue,
                   mutex, threadCount, idx, pushed, dequeued, latePush,
                   stopPops, popEmpty, joinThrew>>
    /\ UNCHANGED <<stopVars, cvVars, lifeVars>>

\* The stop callback main registered: [&]() { extraThread.start(...); }. It
\* runs on the thread inside request_stop() (or inside addCallback, on a
\* stopped token) before that call returns.
RunCallback ==
    /\ mpc = "callback"
    /\ callbacks' = callbacks \ {marg}
    /\ StartWorker(Extra)
    /\ IF mblock
       THEN /\ mpc' = "join"
            /\ UNCHANGED <<marg, mblock, mret>>
       ELSE /\ mpc' = mret
            /\ marg' = 0
            /\ mblock' = FALSE
            /\ mret' = "idle"
    /\ UNCHANGED <<mFinishEarly, ret, value, taskQueue, mutex, threadCount,
                   idx, pushed, dequeued, latePush, stopPops, popEmpty,
                   joinThrew>>
    /\ UNCHANGED <<stopVars, cvVars, lifeVars>>

\* mThread.join() in stop(true) and join(): returns when the body has
\* returned.
PoolJoinReturns ==
    /\ mpc = "join"
    /\ mThread[marg] = "running"
    /\ pc[marg] = "done"
    /\ mThread' = [mThread EXCEPT ![marg] = "joined"]
    /\ mpc' = mret
    /\ marg' = 0
    /\ mblock' = FALSE
    /\ mret' = "idle"
    /\ UNCHANGED <<token, mFinishEarly, pc, ret, value, taskQueue, mutex,
                   callbacks, threadCount, idx, pushed, dequeued, latePush,
                   stopPops, popEmpty, joinThrew>>
    /\ UNCHANGED <<stopVars, cvVars, lifeVars>>

\* mThread.join() on a thread already joined raises std::system_error,
\* which nothing catches.
PoolJoinThrows ==
    /\ mpc = "join"
    /\ mThread[marg] = "joined"
    /\ joinThrew' = TRUE
    /\ mpc' = "terminated"
    /\ UNCHANGED <<mThread, token, mFinishEarly, pc, ret, value, taskQueue,
                   mutex, callbacks, marg, mblock, mret, threadCount, idx,
                   pushed, dequeued, latePush, stopPops, popEmpty>>
    /\ UNCHANGED <<stopVars, cvVars, lifeVars>>

\* WorkerThread::addCallback with main's lambda: a stop_callback on the
\* worker's token (never deleted in ex7). No stop state: bound to nothing;
\* stop already requested: the lambda runs now; otherwise it is registered.
DoAddCallback(w, after) ==
    /\ IF mThread[w] = "none"
       THEN /\ mpc' = after
            /\ UNCHANGED <<callbacks, marg, mblock, mret>>
       ELSE IF token[w]
       THEN /\ mpc' = "callback"
            /\ marg' = w
            /\ mblock' = FALSE
            /\ mret' = after
            /\ UNCHANGED callbacks
       ELSE /\ callbacks' = callbacks \cup {w}
            /\ mpc' = after
            /\ UNCHANGED <<marg, mblock, mret>>
    /\ UNCHANGED <<mThread, token, mFinishEarly, pc, ret, value, taskQueue,
                   mutex, threadCount, pushed, dequeued, latePush, stopPops, popEmpty, joinThrew>>

\* std::unique_lock lock(mutex) in main's push loop
DoPushLock(inside) ==
    /\ mutex = 0
    /\ mutex' = MainId
    /\ mpc' = inside
    /\ UNCHANGED <<mThread, token, mFinishEarly, pc, ret, value, taskQueue,
                   callbacks, marg, mblock, mret, threadCount, pushed,
                   dequeued, latePush, stopPops, popEmpty, joinThrew>>

\* cv.notify_one(): one blocked body, if there is any, is woken.
NotifyOne(w) ==
    IF Blocked = {} THEN pc
    ELSE [pc EXCEPT ![w] = IF w \in Blocked THEN "relock" ELSE pc[w]]

\* taskQueue.push(v); cv.notify_one(); and the lock is released
DoPush(v, after) ==
    /\ mutex = MainId
    /\ taskQueue' = Append(taskQueue, v)
    /\ pushed' = Append(pushed, v)
    /\ latePush' = (latePush \/ \E w \in Workers : mThread[w] # "none")
    /\ \E w \in Workers :
        /\ (Blocked # {} => w \in Blocked)
        /\ pc' = NotifyOne(w)
    /\ mutex' = 0
    /\ mpc' = after
    /\ UNCHANGED <<mThread, token, mFinishEarly, ret, value, callbacks, marg,
                   mblock, mret, threadCount, dequeued, stopPops, popEmpty, joinThrew>>


(***************************************************************************)
(* WorkerThread::worker (ex7), the body of a pool worker.                  *)
(***************************************************************************)

\* int value = 0; std::unique_lock lock(mutex): at the top of the loop, the
\* first time ("lock") or when the sleep_for after an item ("sleep") is over.
WorkerLock(w) ==
    /\ pc[w] \in {"lock", "sleep"}
    /\ mutex = 0
    /\ mutex' = w
    /\ pc' = [pc EXCEPT ![w] = "wait"]
    /\ value' = [value EXCEPT ![w] = 0]
    /\ UNCHANGED <<mThread, token, mFinishEarly, ret, taskQueue, callbacks,
                   mpc, marg, mblock, mret, threadCount, idx, pushed,
                   dequeued, latePush, stopPops, popEmpty, joinThrew>>
    /\ UNCHANGED <<stopVars, cvVars, lifeVars>>

\* cv.wait(lock, token, [&]() { return queue.size() > 0; }), evaluated with
\* the mutex held: with stop requested it returns the predicate; else with
\* the predicate true it returns true; else it releases the mutex and blocks.
WaitOutcomeIgnoringPred(w) ==
    IF token[w] THEN "true"
    ELSE IF Len(taskQueue) > 0 THEN "true" ELSE "block"

\* A wait that gives up on a stop request without looking at the queue
WaitOutcomeStopFirst(w) ==
    IF token[w] THEN "false"
    ELSE IF Len(taskQueue) > 0 THEN "true" ELSE "block"

\* A wait that returns false on an empty queue instead of blocking
WaitOutcomeNoBlock(w) ==
    IF Len(taskQueue) > 0 THEN "true" ELSE "false"

WaitOutcome(w) ==
    IF token[w] THEN (IF Len(taskQueue) > 0 THEN "true" ELSE "false")
    ELSE IF Len(taskQueue) > 0 THEN "true" ELSE "block"

TokenWait(w) ==
    /\ pc[w] \in {"wait", "rewait"}
    /\ mutex = w
    /\ IF WaitOutcome(w) = "block"
       THEN /\ pc' = [pc EXCEPT ![w] = "blocked"]
            /\ mutex' = 0
            /\ UNCHANGED ret
       ELSE /\ pc' = [pc EXCEPT ![w] = "chk"]
            /\ ret' = [ret EXCEPT ![w] = (WaitOutcome(w) = "true")]
            /\ UNCHANGED mutex
    /\ UNCHANGED <<mThread, token, mFinishEarly, value, taskQueue, callbacks,
                   mpc, marg, mblock, mret, threadCount, idx, pushed,
                   dequeued, latePush, stopPops, popEmpty, joinThrew>>
    /\ UNCHANGED <<stopVars, cvVars, lifeVars>>

\* A woken body that re-evaluates the wait without taking the mutex again
WorkerRelockNoLock(w) ==
    /\ pc[w] = "relock"
    /\ pc' = [pc EXCEPT ![w] = "rewait"]
    /\ UNCHANGED <<mThread, token, mFinishEarly, ret, value, taskQueue,
                   callbacks, mpc, marg, mblock, mret, threadCount, idx,
                   pushed, dequeued, latePush, stopPops, popEmpty,
                   joinThrew, mutex>>
    /\ UNCHANGED <<stopVars, cvVars, lifeVars>>

\* A woken body takes the mutex again and re-evaluates the wait, still
\* inside the call ("rewait").
WorkerRelock(w) ==
    /\ pc[w] = "relock"
    /\ mutex = 0
    /\ mutex' = w
    /\ pc' = [pc EXCEPT ![w] = "rewait"]
    /\ UNCHANGED <<mThread, token, mFinishEarly, ret, value, taskQueue,
                   callbacks, mpc, marg, mblock, mret, threadCount, idx,
                   pushed, dequeued, latePush, stopPops, popEmpty,
                   joinThrew>>
    /\ UNCHANGED <<stopVars, cvVars, lifeVars>>

\* A condition variable may wake a waiter without any notification.
SpuriousWake(w) ==
    /\ pc[w] = "blocked"
    /\ pc' = [pc EXCEPT ![w] = "relock"]
    /\ UNCHANGED <<mThread, token, mFinishEarly, ret, value, taskQueue, mutex,
                   callbacks, mpc, marg, mblock, mret, threadCount, idx,
                   pushed, dequeued, latePush, stopPops, popEmpty,
                   joinThrew>>
    /\ UNCHANGED <<stopVars, cvVars, lifeVars>>

\* if (!cv.wait(...) || (mFinishEarly && token.stop_requested())) break;
LeaveLoopNoTokenCheck(w) == ~ret[w]

LeaveLoopAnyWorker(w) == ~ret[w] \/ token[w]

\* A finish-early test that gives way to the items still queued
LeaveLoopWhenDrained(w) ==
    ~ret[w] \/ (mFinishEarly[w] /\ token[w] /\ taskQueue = <<>>)

LeaveLoop(w) == ~ret[w] \/ (mFinishEarly[w] /\ token[w])

WorkerCheck(w) ==
    /\ pc[w] = "chk"
    /\ mutex = w
    /\ IF LeaveLoop(w)
       THEN /\ pc' = [pc EXCEPT ![w] = "done"]
            /\ mutex' = 0
       ELSE /\ pc' = [pc EXCEPT ![w] = "pop"]
            /\ UNCHANGED mutex
    /\ ret' = [ret EXCEPT ![w] = FALSE]
    /\ UNCHANGED <<mThread, token, mFinishEarly, value, taskQueue,
                   callbacks, mpc, marg, mblock, mret, threadCount, idx,
                   pushed, dequeued, latePush, stopPops, popEmpty,
                   joinThrew>>
    /\ UNCHANGED <<stopVars, cvVars, lifeVars>>

\* The body taking the newest item instead of the oldest
WorkerPopNewest(w) ==
    /\ pc[w] = "pop"
    /\ mutex = w
    /\ Len(taskQueue) > 0
    /\ value' = [value EXCEPT ![w] = taskQueue[Len(taskQueue)]]
    /\ taskQueue' = SubSeq(taskQueue, 1, Len(taskQueue) - 1)
    /\ dequeued' = [dequeued EXCEPT
                       ![w] = Append(@, taskQueue[Len(taskQueue)])]
    /\ stopPops' = [stopPops EXCEPT ![w] = IF token[w] THEN @ + 1 ELSE @]
    /\ mutex' = 0
    /\ pc' = [pc EXCEPT ![w] = "sleep"]
    /\ UNCHANGED <<mThread, token, mFinishEarly, ret, callbacks, mpc, marg,
                   mblock, mret, threadCount, idx, pushed, latePush,
                   popEmpty, joinThrew>>
    /\ UNCHANGED <<stopVars, cvVars, lifeVars>>

\* A body that keeps the lock while it sleeps on the item
WorkerPopKeepsLock(w) ==
    /\ pc[w] = "pop"
    /\ mutex = w
    /\ Len(taskQueue) > 0
    /\ value' = [value EXCEPT ![w] = Head(taskQueue)]
    /\ taskQueue' = Tail(taskQueue)
    /\ dequeued' = [dequeued EXCEPT ![w] = Append(@, Head(taskQueue))]
    /\ stopPops' = [stopPops EXCEPT ![w] = IF token[w] THEN @ + 1 ELSE @]
    /\ pc' = [pc EXCEPT ![w] = "sleep"]
    /\ UNCHANGED <<mThread, token, mFinishEarly, ret, callbacks, mpc, marg,
                   mblock, mret, threadCount, idx, pushed, latePush,
                   popEmpty, joinThrew, mutex>>
    /\ UNCHANGED <<stopVars, cvVars, lifeVars>>

\* A body that reads front() and leaves the item in the queue
WorkerPopNoPop(w) ==
    /\ pc[w] = "pop"
    /\ mutex = w
    /\ Len(taskQueue) > 0
    /\ value' = [value EXCEPT ![w] = Head(taskQueue)]
    /\ dequeued' = [dequeued EXCEPT ![w] = Append(@, Head(taskQueue))]
    /\ stopPops' = [stopPops EXCEPT ![w] = IF token[w] THEN @ + 1 ELSE @]
    /\ mutex' = 0
    /\ pc' = [pc EXCEPT ![w] = "sleep"]
    /\ UNCHANGED <<mThread, token, mFinishEarly, ret, callbacks, mpc, marg,
                   mblock, mret, threadCount, idx, pushed, latePush,
                   popEmpty, joinThrew, taskQueue>>
    /\ UNCHANGED <<stopVars, cvVars, lifeVars>>

\* value = queue.front(); queue.pop(); and the lock's scope ends: the body
\* goes to std::this_thread::sleep_for(value * 100ms) outside the lock. On
\* an empty queue front() and pop() are undefined: popEmpty records it.
WorkerPop(w) ==
    /\ pc[w] = "pop"
    /\ mutex = w
    /\ IF Len(taskQueue) = 0
       THEN /\ popEmpty' = TRUE
            /\ UNCHANGED <<value, taskQueue, dequeued, stopPops>>
       ELSE /\ value' = [value EXCEPT ![w] = Head(taskQueue)]
            /\ taskQueue' = Tail(taskQueue)
            /\ dequeued' = [dequeued EXCEPT ![w] = Append(@, Head(taskQueue))]
            /\ stopPops' = [stopPops EXCEPT
                               ![w] = IF token[w] THEN @ + 1 ELSE @]
            /\ UNCHANGED popEmpty
    /\ mutex' = 0
    /\ pc' = [pc EXCEPT ![w] = "sleep"]
    /\ UNCHANGED <<mThread, token, mFinishEarly, ret, callbacks, mpc, marg,
                   mblock, mret, threadCount, idx, pushed, latePush,
                   joinThrew>>
    /\ UNCHANGED <<stopVars, cvVars, lifeVars>>

WorkerStep(w) ==
    \/ WorkerLock(w)
    \/ TokenWait(w)
    \/ WorkerRelock(w)
    \/ WorkerCheck(w)
    \/ WorkerPop(w)

(***************************************************************************)
(* Spec: a pool of primary workers driven call by call. main, between two  *)
(* calls, may start a worker, stop or join it, or push the next task.      *)
(***************************************************************************)
CallStart(w) ==
    /\ mpc = "idle"
    /\ StartWorker(w)
    /\ UNCHANGED <<mFinishEarly, ret, value, taskQueue, mutex, callbacks, mpc,
                   marg, mblock, mret, threadCount, idx, pushed, dequeued,
                   latePush, stopPops, popEmpty, joinThrew>>
    /\ UNCHANGED <<stopVars, cvVars, lifeVars>>

CallStop(w, block) ==
    /\ mpc = "idle"
    /\ DoStop(w, block, "idle")
    /\ UNCHANGED idx
    /\ UNCHANGED <<stopVars, cvVars, lifeVars>>

\* WorkerThread::join(): if (mThread.joinable()) mThread.join();
CallJoin(w) ==
    /\ mpc = "idle"
    /\ mThread[w] = "running"
    /\ mpc' = "join"
    /\ marg' = w
    /\ mret' = "idle"
    /\ UNCHANGED <<mThread, token, mFinishEarly, pc, ret, value, taskQueue,
                   mutex, callbacks, mblock, threadCount, idx, pushed,
                   dequeued, latePush, stopPops, popEmpty, joinThrew>>
    /\ UNCHANGED <<stopVars, cvVars, lifeVars>>

CallPushLock ==
    /\ mpc = "idle"
    /\ Len(pushed) < MaxPush
    /\ DoPushLock("push")
    /\ UNCHANGED idx
    /\ UNCHANGED <<stopVars, cvVars, lifeVars>>

CallPush ==
    /\ mpc = "push"
    /\ DoPush(MaxPush - Len(pushed), "idle")
    /\ UNCHANGED idx
    /\ UNCHANGED <<stopVars, cvVars, lifeVars>>

MainStep ==
    \/ \E w \in Primaries : CallStart(w)
    \/ \E w \in Primaries, block \in BOOLEAN : CallStop(w, block)
    \/ \E w \in Primaries : CallJoin(w)
    \/ CallPushLock
    \/ CallPush
    \/ PoolJoinReturns
    \/ PoolJoinThrows

PoolNext ==
    \/ MainStep
    \/ \E w \in Primaries : WorkerStep(w)
    \/ \E w \in Primaries : SpuriousWake(w)

(***************************************************************************)
(* The claims about the pool worker's wait and loop.                       *)
(***************************************************************************)

\* w is the only worker ever started, and every task was in the queue
\* before it started.
Alone(w) ==
    /\ ~latePush
    /\ \A v \in Workers \ {w} : mThread[v] = "none"

\* C7: a worker inside the token-aware wait whose stop is requested leaves
\* the wait and its body returns, with no push and no notify needed; a body
\* never stays blocked in the wait with its stop requested.
C7_StopEndsWait ==
    \A w \in Primaries : (token[w] /\ InWait(w)) ~> (pc[w] = "done")

\* C7 witness: a body blocked on the empty queue was stopped with nothing
\* ever pushed, and it has returned.
C7_Witness ==
    \E w \in Primaries :
        /\ token[w]
        /\ pc[w] = "done"
        /\ pushed = <<>>
        /\ mThread[w] = "joined"

\* C8: no worker reads front() or pops on an empty queue: it is past the
\* wait and about to dequeue only with the mutex held and the queue
\* non-empty, and the wait has returned false only with the worker's stop
\* requested and the queue empty.
C8_NeverPopsEmpty ==
    /\ ~popEmpty
    /\ \A w \in Primaries :
        /\ (pc[w] = "pop" => mutex = w /\ Len(taskQueue) > 0)
        /\ (pc[w] = "chk" /\ ~ret[w] => token[w] /\ taskQueue = <<>>)
        /\ (pc[w] = "chk" /\ ret[w] => mutex = w /\ Len(taskQueue) > 0)

\* C8 witness: two workers have both dequeued, one of them after its stop
\* was requested, and the wait of a worker has just returned false.
C8_Witness ==
    \E w, v \in Primaries :
        /\ w # v
        /\ dequeued[w] # <<>>
        /\ stopPops[v] > 0
        /\ pc[v] = "chk"
        /\ ~ret[v]

\* C9: a finishEarly = false worker, alone on a queue loaded before it
\* started, whose stop is requested returns, and when it has returned it
\* has dequeued exactly the loaded items, in order.
C9_DrainsAll ==
    /\ [](\A w \in Primaries :
            ~mFinishEarly[w] /\ Alone(w) /\ pc[w] = "done"
                => dequeued[w] = pushed)
    /\ \A w \in Primaries :
            (~mFinishEarly[w] /\ token[w]) ~> (pc[w] = "done")

\* C9 witness: the worker dequeued every one of the MaxPush loaded items
\* with its stop already requested, and returned.
C9_Witness ==
    \E w \in Primaries :
        /\ ~mFinishEarly[w]
        /\ Alone(w)
        /\ Len(pushed) = MaxPush
        /\ stopPops[w] = MaxPush
        /\ pc[w] = "done"

\* C10: a finishEarly = true worker whose stop is requested returns; it
\* never dequeues more than was pushed, and after the request it dequeues
\* at most the one item it had already decided to take.
C10_FinishesEarly ==
    /\ [](\A w \in Primaries :
            mFinishEarly[w] =>
                /\ Len(dequeued[w]) <= Len(pushed)
                /\ stopPops[w] <= 1)
    /\ \A w \in Primaries :
            (mFinishEarly[w] /\ token[w]) ~> (pc[w] = "done")

\* C10 witness: the worker, alone on a loaded queue, returned with its stop
\* requested while loaded items were still in the queue.
C10_Witness ==
    \E w \in Primaries :
        /\ mFinishEarly[w]
        /\ Alone(w)
        /\ token[w]
        /\ pc[w] = "done"
        /\ Len(pushed) = MaxPush
        /\ Len(dequeued[w]) < Len(pushed)

\* The number of items the workers of S have dequeued.
RECURSIVE TotalDequeued(_)
TotalDequeued(S) ==
    IF S = {} THEN 0
    ELSE LET w == CHOOSE v \in S : TRUE
         IN Len(dequeued[w]) + TotalDequeued(S \ {w})

\* w is the only worker ever started: the only consumer of the queue.
OnlyConsumer(w) == \A v \in Workers \ {w} : mThread[v] = "none"

\* C20: a worker dequeues with the queue mutex held and has released it
\* when it processes (sleeps on) the item: no worker holds the mutex while
\* it processes.
C20_ProcessesUnlocked ==
    \A w \in Primaries :
        /\ (pc[w] = "pop" => mutex = w)
        /\ (pc[w] = "sleep" => mutex # w)

\* While one worker is processing an item, another has acquired the mutex
\* and is about to dequeue the next one.
C20_Witness ==
    \E w, v \in Primaries :
        /\ w # v
        /\ pc[w] = "sleep"
        /\ dequeued[w] # <<>>
        /\ mutex = v
        /\ pc[v] = "pop"
        /\ Len(taskQueue) > 0

\* The threads that are at a place where they touch the task queue: a body
\* evaluating queue.size() in the wait, between the wait and front()/pop(),
\* and main at taskQueue.push().
QueueUsers ==
    {w \in Workers : pc[w] \in {"wait", "rewait", "chk", "pop"}}
        \cup (IF mpc = "push" THEN {MainId} ELSE {})

\* C21: every read or write of the task queue is made by a thread that
\* holds the queue mutex, and at most one thread holds it: the threads at a
\* queue access are exactly the holder of the mutex, if any.
C21_QueueUnderMutex ==
    /\ Cardinality(QueueUsers) <= 1
    /\ QueueUsers = (IF mutex = 0 THEN {} ELSE {mutex})

\* main is pushing under the mutex while a woken worker waits for the mutex
\* and another worker has already dequeued.
C21_Witness ==
    /\ mpc = "push"
    /\ mutex = MainId
    /\ \E w, v \in Primaries :
        /\ w # v
        /\ pc[w] = "relock"
        /\ dequeued[v] # <<>>

\* C22: a pool worker's body returns only after stop was requested on that
\* worker: without a stop request its wait returns only on a non-empty
\* queue, so on an empty queue it stays in the wait, dequeues nothing and
\* does not exit, whatever its finishEarly.
C22_ExitsOnlyOnStop ==
    \A w \in Primaries :
        /\ (pc[w] = "done" => token[w])
        /\ (pc[w] \in {"chk", "pop"} /\ ~token[w] =>
                Len(taskQueue) > 0 /\ mutex = w)
        /\ (pc[w] = "chk" /\ ~token[w] => ret[w])

\* A worker is blocked again on the empty queue, after the item it took,
\* with no stop requested on it, while another worker was stopped and has
\* returned.
C22_Witness ==
    \E w, v \in Primaries :
        /\ pc[w] = "blocked"
        /\ ~token[w]
        /\ dequeued[w] # <<>>
        /\ taskQueue = <<>>
        /\ pc[v] = "done"
        /\ token[v]

\* C28: a finishEarly = true worker dequeues at most one item after its stop
\* was requested (the one it takes when the stop lands between its token
\* check and its pop), and once it has taken that item it only finishes
\* the item and leaves: it is never again about to dequeue.
C28_AtMostOneAfterStop ==
    \A w \in Primaries :
        mFinishEarly[w] =>
            /\ stopPops[w] <= 1
            /\ (stopPops[w] = 1 =>
                    pc[w] \in {"sleep", "wait", "chk", "done"})

\* A finishEarly worker took one item after its stop and has returned with
\* an item still queued.
C28_Witness ==
    \E w \in Primaries :
        /\ mFinishEarly[w]
        /\ stopPops[w] = 1
        /\ pc[w] = "done"
        /\ taskQueue # <<>>

\* How often item v occurs in the sequence q.
Count(q, v) == Cardinality({i \in DOMAIN q : q[i] = v})

\* How often item v was dequeued by the workers of S.
RECURSIVE DequeuedCount(_, _)
DequeuedCount(S, v) ==
    IF S = {} THEN 0
    ELSE LET w == CHOOSE u \in S : TRUE
         IN Count(dequeued[w], v) + DequeuedCount(S \ {w}, v)

\* Every item that appears anywhere: pushed, queued, dequeued or held.
Items ==
    {pushed[i] : i \in DOMAIN pushed}
        \cup {taskQueue[i] : i \in DOMAIN taskQueue}
        \cup UNION {{dequeued[w][i] : i \in DOMAIN dequeued[w]} :
                        w \in Workers}

\* C29: items are conserved and never duplicated: each item was pushed as
\* often as it is in the queue plus dequeued by the workers, and (each item
\* being pushed once) it is dequeued by at most one worker, once.
C29_ItemsConserved ==
    \A v \in Items :
        /\ Count(pushed, v) = Count(taskQueue, v) + DequeuedCount(Workers, v)
        /\ Count(pushed, v) = 1
        /\ DequeuedCount(Workers, v) <= 1

\* Every push is done, two workers have each dequeued one of the items,
\* one of them after its stop was requested.
C29_Witness ==
    /\ Len(pushed) = MaxPush
    /\ taskQueue = <<>>
    /\ \E w, v \in Primaries :
        /\ w # v
        /\ dequeued[w] # <<>>
        /\ dequeued[v] # <<>>
        /\ stopPops[v] > 0

\* C11: with one finishEarly = false worker as the only consumer the items
\* leave the queue in the order they were pushed (what it has dequeued,
\* followed by the queue, is what was pushed), and the body returns only
\* on an empty queue: everything pushed until then has been dequeued, in
\* the order of the pushes, before the thread terminates.
C11_FifoOrder ==
    /\ [](\A w \in Primaries :
            OnlyConsumer(w) /\ ~mFinishEarly[w]
                => dequeued[w] \o taskQueue = pushed)
    /\ [][\A w \in Primaries :
            ~mFinishEarly[w] /\ pc[w] # "done" /\ pc'[w] = "done"
                => taskQueue' = <<>>]_vars

\* C11 witness: MaxPush items were pushed to the running worker, stop() was
\* called while they were all still queued, and the worker dequeued them
\* all in the order of the pushes and returned.
C11_Witness ==
    \E w \in Primaries :
        /\ OnlyConsumer(w)
        /\ ~mFinishEarly[w]
        /\ latePush
        /\ Len(pushed) = MaxPush
        /\ stopPops[w] = MaxPush
        /\ pc[w] = "done"
        /\ dequeued[w] = pushed

\* C14: an item in the queue while a started finishEarly = false worker
\* (the overflow worker) is inside its wait and not told to stop is
\* eventually dequeued by some worker.
C14_PushedItemDequeued ==
    \A w \in Primaries, n \in 0..MaxPush :
        (/\ ~mFinishEarly[w]
         /\ InWait(w)
         /\ ~token[w]
         /\ taskQueue # <<>>
         /\ TotalDequeued(Workers) = n) ~> (TotalDequeued(Workers) > n)

\* The started workers whose stop has not been requested.
Unstopped == {w \in Primaries : mThread[w] = "running" /\ ~token[w]}

\* C27: no queued item is stranded: whenever the queue is non-empty and
\* some started worker has not been told to stop, a worker eventually
\* dequeues an item (or, at the latest, every such worker has been told to
\* stop), however the pushes and their notify_one interleave with the stop
\* requests on other workers.
C27_NoStranding ==
    \A n \in 0..MaxPush :
        (/\ taskQueue # <<>>
         /\ Unstopped # {}
         /\ TotalDequeued(Workers) = n)
            ~> (TotalDequeued(Workers) > n \/ Unstopped = {})

(***************************************************************************)
(* SpecMain: main of ex7. threadCount comes from the command line; the     *)
(* loop that fills the queue pushes threadCount * TasksPerThread tasks.    *)
(***************************************************************************)

\* static const int SPECIAL_THREAD = threadCount / 2, as the number of the
\* worker created at that index.
Special == (threadCount \div 2) + 1

\* ~WorkerThread: stop(), then the member mThread is destroyed: ~jthread
\* requests stop and joins when the thread is joinable.
DoDestroy(w, after) ==
    IF mThread[w] = "running"
    THEN DoStop(w, TRUE, after)
    ELSE DoStop(w, FALSE, after)

\* threads.push_back(make_unique<WorkerThread>(..., true));
\* threads.back()->start(mutex, cv, taskQueue);
MainStart ==
    /\ mpc = "create"
    /\ idx < threadCount
    /\ StartWorker(idx + 1)
    /\ idx' = idx + 1
    /\ mpc' = IF idx + 1 = Special THEN "addcb" ELSE "create"
    /\ UNCHANGED <<mFinishEarly, ret, value, taskQueue, mutex, callbacks,
                   marg, mblock, mret, threadCount, pushed, dequeued,
                   latePush, stopPops, popEmpty, joinThrew>>
    /\ UNCHANGED <<stopVars, cvVars, lifeVars>>

\* if (i == SPECIAL_THREAD) threads.back()->addCallback([&]() {...});
MainAddCallback ==
    /\ mpc = "addcb"
    /\ DoAddCallback(idx, "create")
    /\ UNCHANGED idx
    /\ UNCHANGED <<stopVars, cvVars, lifeVars>>

\* The creating loop is over: for (int i = threadCount * 10; i > 0; --i)
MainCreated ==
    /\ mpc = "create"
    /\ idx >= threadCount
    /\ mpc' = "pushing"
    /\ idx' = IF threadCount > 0 THEN threadCount * TasksPerThread ELSE 0
    /\ UNCHANGED <<mThread, token, mFinishEarly, pc, ret, value, taskQueue,
                   mutex, callbacks, marg, mblock, mret, threadCount, pushed,
                   dequeued, latePush, stopPops, popEmpty, joinThrew>>
    /\ UNCHANGED <<stopVars, cvVars, lifeVars>>

MainPushLock ==
    /\ mpc = "pushing"
    /\ idx > 0
    /\ DoPushLock("push")
    /\ UNCHANGED idx
    /\ UNCHANGED <<stopVars, cvVars, lifeVars>>

MainPush ==
    /\ mpc = "push"
    /\ DoPush(idx, "pushing")
    /\ idx' = idx - 1
    /\ UNCHANGED <<stopVars, cvVars, lifeVars>>

\* delayMultiplier /= threadCount; sleep_for(... - 10000ms / threadCount):
\* with threadCount = 0 the division is undefined: the process is killed
\* or goes on.
MainDelay ==
    /\ mpc = "pushing"
    /\ idx = 0
    /\ \/ mpc' = "kill"
       \/ threadCount = 0 /\ mpc' = "terminated"
    /\ UNCHANGED <<mThread, token, mFinishEarly, pc, ret, value, taskQueue,
                   mutex, callbacks, marg, mblock, mret, threadCount, idx,
                   pushed, dequeued, latePush, stopPops, popEmpty,
                   joinThrew>>
    /\ UNCHANGED <<stopVars, cvVars, lifeVars>>

\* for (auto &thread : threads) thread->stop();
MainKill ==
    /\ mpc = "kill"
    /\ idx < threadCount
    /\ DoStop(idx + 1, FALSE, "kill")
    /\ idx' = idx + 1
    /\ UNCHANGED <<stopVars, cvVars, lifeVars>>

\* extraThread.stop(true); then "All jobs complete." and return 0
MainStopExtra ==
    /\ mpc = "kill"
    /\ idx >= threadCount
    /\ DoStop(Extra, TRUE, "exit")
    /\ idx' = 0
    /\ UNCHANGED <<stopVars, cvVars, lifeVars>>

\* return 0: the vector `threads` is destroyed, worker by worker
MainDestroy ==
    /\ mpc = "exit"
    /\ idx < threadCount
    /\ DoDestroy(idx + 1, "exit")
    /\ idx' = idx + 1
    /\ UNCHANGED <<stopVars, cvVars, lifeVars>>

\* then extraThread is destroyed and main has returned
MainDestroyExtra ==
    /\ mpc = "exit"
    /\ idx >= threadCount
    /\ DoDestroy(Extra, "finished")
    /\ UNCHANGED idx
    /\ UNCHANGED <<stopVars, cvVars, lifeVars>>

MainNext ==
    \/ MainStart
    \/ MainAddCallback
    \/ MainCreated
    \/ MainPushLock
    \/ MainPush
    \/ MainDelay
    \/ MainKill
    \/ MainStopExtra
    \/ MainDestroy
    \/ MainDestroyExtra
    \/ RunCallback
    \/ PoolJoinReturns
    \/ \E w \in Workers : WorkerStep(w)
    \/ \E w \in Workers : SpuriousWake(w)

\* C5: the callback runs inside the request_stop() that performed the
\* transition, on main, before stop() returns: once main is past stop() on
\* the designated worker extraThread has been started, the blocking stop on
\* extraThread finds it started with a stop state, and when it has
\* returned extraThread has been joined.
C5_CallbackInsideStop ==
    /\ (mpc = "callback" =>
            token[marg] /\ marg \in callbacks /\ mThread[Extra] = "none")
    /\ (mpc = "kill" /\ idx >= Special => mThread[Extra] # "none")
    /\ (mpc = "join" /\ marg = Extra =>
            mThread[Extra] = "running" /\ token[Extra])
    /\ (mpc \in {"exit", "finished"} /\ threadCount >= 1 =>
            mThread[Extra] = "joined" /\ pc[Extra] = "done")
    /\ ~joinThrew

\* C5 witness: with MaxThreads workers, extraThread was started by the
\* callback, did some of the work, and the blocking stop has returned.
C5_Witness ==
    /\ threadCount = MaxThreads
    /\ mpc = "exit"
    /\ mThread[Extra] = "joined"
    /\ dequeued[Extra] # <<>>

\* main is past extraThread.stop(true) of a pool with at least one worker.
ShutdownReturned ==
    /\ threadCount >= 1
    /\ \/ mpc \in {"exit", "finished"}
       \/ mpc = "join" /\ marg # Extra

\* C12: when the blocking stop on extraThread has returned, after the
\* non-blocking stop() on every primary worker, the queue is empty and every
\* item main pushed has been dequeued by some worker, for every pool size
\* from 1 to MaxThreads.
C12_ShutdownDrains ==
    ShutdownReturned =>
        /\ taskQueue = <<>>
        /\ Len(pushed) = threadCount * TasksPerThread
        /\ TotalDequeued(Workers) = Len(pushed)

\* C12 witness: with MaxThreads workers the blocking stop has just returned,
\* and extraThread dequeued an item after its own stop was requested.
C12_Witness ==
    /\ threadCount = MaxThreads
    /\ mpc = "exit"
    /\ idx = 0
    /\ stopPops[Extra] > 0
    /\ taskQueue = <<>>

\* C26: when the blocking stop on extraThread has returned ("All jobs
\* complete."), every pushed item has been dequeued and its processing is
\* over: no primary worker is still processing an item it dequeued.
C26_AllJobsComplete ==
    ShutdownReturned =>
        /\ TotalDequeued(Workers) = Len(pushed)
        /\ \A w \in Primaries : pc[w] # "sleep"

\* C30: for every pool size N >= 1 exactly one primary worker, the one at
\* index N / 2, carries the callback that starts extraThread, and
\* extraThread is started exactly once: by that callback inside the kill
\* loop, and not again when the destructor stops the same worker.
C30_OverflowStartedOnce ==
    /\ [](/\ callbacks \subseteq {Special}
          /\ (threadCount >= 1 /\ mpc \in {"pushing", "push"} =>
                  callbacks = {Special} /\ Special \in 1..threadCount)
          /\ (mpc = "callback" =>
                  marg = Special /\ mret = "kill" /\ mThread[Extra] = "none")
          /\ (mThread[Extra] # "none" => token[Special] /\ callbacks = {}))
    /\ [][mThread[Extra] # "none" => mThread'[Extra] # "none"
             /\ (mThread[Extra] = "joined" => mThread'[Extra] = "joined")]_vars

\* main has returned from a pool of MaxThreads workers: the designated
\* worker was stopped in the kill loop and again by its destructor, and
\* extraThread, started in between, was joined.
C30_Witness ==
    /\ threadCount = MaxThreads
    /\ mpc = "finished"
    /\ mThread[Special] = "joined"
    /\ mThread[Extra] = "joined"

\* The steps of main's own thread in SpecMain.
MainThread ==
    \/ MainStart
    \/ MainAddCallback
    \/ MainCreated
    \/ MainPushLock
    \/ MainPush
    \/ MainDelay
    \/ MainKill
    \/ MainStopExtra
    \/ MainDestroy
    \/ MainDestroyExtra
    \/ RunCallback
    \/ PoolJoinReturns

\* C13: in main's pool, once stop is requested on the designated worker
\* (the one carrying the callback) that worker's body returns, extraThread
\* gets started, and the queue becomes empty and stays empty.
C13_OverflowDrains ==
    /\ (token[Special] ~> (pc[Special] = "done"))
    /\ (token[Special] ~> (mThread[Extra] # "none"))
    /\ (token[Special] ~> [](taskQueue = <<>>))

\* C13 witness: with MaxThreads workers the designated worker was stopped
\* while every pushed item was still queued; it returned, and extraThread
\* dequeued them all.
C13_Witness ==
    /\ threadCount = MaxThreads
    /\ Len(pushed) = threadCount * TasksPerThread
    /\ pc[Special] = "done"
    /\ dequeued[Extra] = pushed
    /\ taskQueue = <<>>

(***************************************************************************)
(* Part 3: the blocking worker of ex4 (blockingWorker) and ex6             *)
(* (WorkerThread<T>::worker), and the calls main makes on it.              *)
(***************************************************************************)
CvInitWith(loop) ==
    /\ whileLoop = loop
    /\ bpc = "idle"
    /\ done = FALSE
    /\ cvMutex = FALSE
    /\ cvData = FALSE
    /\ cvStop = FALSE
    /\ cb = "none"
    /\ cvMain = "init"
    /\ sets = 0
    /\ dpc = "alive"
    /\ useAfter = FALSE

CvInit == \E loop \in BOOLEAN : CvInitWith(loop)

\* cv.notify_all(): a body blocked in cv.wait is woken and has to take the
\* mutex again; a body that is not blocked yet is not affected.
CvNotifyAll == IF bpc = "blocked" THEN "relock" ELSE bpc

\* The predicate of the wait: (done = data) || token.stop_requested()
CvPred == cvData \/ cvStop

\* The loop goes on: !token.stop_requested() && !done
CvLoopOn == ~cvStop /\ ~done

\* std::jthread t(blockingWorker, ...) in main of ex4; start() in ex6
CvStart ==
    /\ cvMain = "init"
    /\ bpc = "idle"
    /\ bpc' = "reg"
    /\ cvMain' = "run"
    /\ UNCHANGED <<whileLoop, done, cvMutex, cvData, cvStop, cb, sets>>
    /\ UNCHANGED <<dpc, useAfter>>
    /\ UNCHANGED <<stopVars, poolVars, lifeVars>>

\* { std::lock_guard lock(mutex); data = d; cv.notify_all(); } in main of
\* ex4 and in setData of ex6 (there under joinable() && !stop_requested()).
\* main holds the mutex for the whole block.
CvSetData(d) ==
    /\ cvMain = "run"
    /\ dpc = "alive"
    /\ ~cvStop
    /\ sets < MaxSets
    /\ ~cvMutex
    /\ cvData' = d
    /\ bpc' = CvNotifyAll
    /\ sets' = sets + 1
    /\ UNCHANGED <<whileLoop, done, cvMutex, cvStop, cb, cvMain>>
    /\ UNCHANGED <<dpc, useAfter>>
    /\ UNCHANGED <<stopVars, poolVars, lifeVars>>

\* get_stop_source().request_stop() in stopThread (ex4) and stop (ex6): the
\* flag is set; the caller then runs the callback if it is registered.
CvRequestStop ==
    /\ cvMain = "run"
    /\ dpc = "alive"
    /\ ~cvStop
    /\ cvStop' = TRUE
    /\ IF cb = "registered"
       THEN cb' = "running" /\ cvMain' = "sweep"
       ELSE cb' = cb /\ cvMain' = "stopped"
    /\ UNCHANGED <<whileLoop, bpc, done, cvMutex, cvData, sets>>
    /\ UNCHANGED <<dpc, useAfter>>
    /\ UNCHANGED <<stopVars, poolVars, lifeVars>>

\* The body's callback on the stopping thread: cv.notify_all(), without
\* the mutex; then request_stop() returns.
CvCallback ==
    /\ cvMain = "sweep"
    /\ bpc' = CvNotifyAll
    /\ cb' = "ran"
    /\ cvMain' = "stopped"
    /\ UNCHANGED <<whileLoop, done, cvMutex, cvData, cvStop, sets>>
    /\ UNCHANGED <<dpc, useAfter>>
    /\ UNCHANGED <<stopVars, poolVars, lifeVars>>

\* mThread.join() in stop(true) of ex6, ~jthread at the end of main in
\* ex4: returns when the body has returned.
CvJoinReturns ==
    /\ cvMain = "stopped"
    /\ dpc = "alive"
    /\ bpc = "done"
    /\ cvMain' = "joined"
    /\ UNCHANGED <<whileLoop, bpc, done, cvMutex, cvData, cvStop, cb, sets>>
    /\ UNCHANGED <<dpc, useAfter>>
    /\ UNCHANGED <<stopVars, poolVars, lifeVars>>

\* mData, mCv and mMutex of the ex6 worker object are destroyed.
MembersGone == dpc \in {"members", "gone"}

\* The derived class's taskComplete() is gone: the derived part of the
\* object is destroyed before ~WorkerThread runs.
OverrideGone == dpc # "alive"

\* The destruction of an ex6 worker object begins: the derived class's
\* destructor has run (BoolWorkerThread, IntWorkerThread).
CvDtorDerived ==
    /\ whileLoop
    /\ cvMain \in {"run", "stopped", "joined"}
    /\ dpc = "alive"
    /\ dpc' = "derived"
    /\ UNCHANGED <<whileLoop, bpc, done, cvMutex, cvData, cvStop, cb, cvMain,
                   sets, useAfter>>
    /\ UNCHANGED <<stopVars, poolVars, lifeVars>>

\* ~WorkerThread(): stop(), which does not join: request_stop() sets the
\* flag and runs the body's callback if it is registered.
CvDtorStop ==
    /\ dpc = "derived"
    /\ dpc' = "base"
    /\ cvStop' = TRUE
    /\ IF ~cvStop /\ cb = "registered"
       THEN cb' = "running" /\ cvMain' = "sweep"
       ELSE UNCHANGED <<cb, cvMain>>
    /\ UNCHANGED <<whileLoop, bpc, done, cvMutex, cvData, sets, useAfter>>
    /\ UNCHANGED <<stopVars, poolVars, lifeVars>>

\* The members are destroyed in reverse order of declaration: mData, mCv
\* and mMutex go first, mThread, declared before them, is still to come.
CvDtorMembers ==
    /\ dpc = "base"
    /\ cvMain # "sweep"
    /\ dpc' = "members"
    /\ UNCHANGED <<whileLoop, bpc, done, cvMutex, cvData, cvStop, cb, cvMain,
                   sets, useAfter>>
    /\ UNCHANGED <<stopVars, poolVars, lifeVars>>

\* ~jthread of mThread: if joinable, request_stop() and join(), which
\* returns when the body has returned.
CvDtorJoin ==
    /\ dpc = "members"
    /\ cvMain = "joined" \/ bpc = "done"
    /\ dpc' = "gone"
    /\ UNCHANGED <<whileLoop, bpc, done, cvMutex, cvData, cvStop, cb, cvMain,
                   sets, useAfter>>
    /\ UNCHANGED <<stopVars, poolVars, lifeVars>>

\* The body is about to use a destroyed member or the destroyed override:
\* the behaviour is undefined. It may go on as if nothing had happened (the
\* body's usual steps) or the process is ended (a pure virtual call, a
\* fault in the destroyed mutex or condition variable).
BodyCrash ==
    /\ \/ bpc \in {"lock", "towait", "relock", "after"} /\ MembersGone
       \/ bpc = "pred" /\ OverrideGone
    /\ bpc' = "crashed"
    /\ useAfter' = TRUE
    /\ UNCHANGED <<whileLoop, done, cvMutex, cvData, cvStop, cb, cvMain, sets,
                   dpc>>
    /\ UNCHANGED <<stopVars, poolVars, lifeVars>>

\* std::stop_callback cb(token, [..]() { cv.notify_all(); }); bool done =
\* false. On a token already stopped the action runs in the constructor.
BodyRegister ==
    /\ bpc = "reg"
    /\ cb' = IF cvStop THEN "ran" ELSE "registered"
    /\ done' = FALSE
    /\ bpc' = IF whileLoop THEN "test" ELSE "lock"
    /\ UNCHANGED <<whileLoop, cvMutex, cvData, cvStop, cvMain, sets>>
    /\ UNCHANGED <<dpc, useAfter>>
    /\ UNCHANGED <<stopVars, poolVars, lifeVars>>

\* while (!token.stop_requested() && !done), and the same test at the end
\* of the do-while
BodyTest ==
    /\ bpc = "test"
    /\ bpc' = IF CvLoopOn THEN "lock" ELSE "exit"
    /\ UNCHANGED <<whileLoop, done, cvMutex, cvData, cvStop, cb, cvMain, sets>>
    /\ UNCHANGED <<dpc, useAfter>>
    /\ UNCHANGED <<stopVars, poolVars, lifeVars>>

\* std::unique_lock lock(mutex)
BodyLock ==
    /\ bpc = "lock"
    /\ ~cvMutex
    /\ cvMutex' = TRUE
    /\ bpc' = "pred"
    /\ UNCHANGED <<whileLoop, done, cvData, cvStop, cb, cvMain, sets>>
    /\ useAfter' = (useAfter \/ MembersGone)
    /\ UNCHANGED dpc
    /\ UNCHANGED <<stopVars, poolVars, lifeVars>>

\* cv.wait(lock, pred) is while (!pred()) wait(lock): the predicate is
\* evaluated with the mutex held; when it is false the body goes on to
\* call wait(lock).
BodyPred ==
    /\ bpc = "pred"
    /\ done' = cvData
    /\ bpc' = IF CvPred THEN "after" ELSE "towait"
    /\ UNCHANGED <<whileLoop, cvMutex, cvData, cvStop, cb, cvMain, sets>>
    /\ useAfter' = (useAfter \/ OverrideGone)
    /\ UNCHANGED dpc
    /\ UNCHANGED <<stopVars, poolVars, lifeVars>>

\* wait(lock): the mutex is released and the body blocks, in one step.
BodyWait ==
    /\ bpc = "towait"
    /\ cvMutex' = FALSE
    /\ bpc' = "blocked"
    /\ UNCHANGED <<whileLoop, done, cvData, cvStop, cb, cvMain, sets>>
    /\ useAfter' = (useAfter \/ MembersGone)
    /\ UNCHANGED dpc
    /\ UNCHANGED <<stopVars, poolVars, lifeVars>>

\* A woken body takes the mutex again and evaluates the predicate again.
BodyRelock ==
    /\ bpc = "relock"
    /\ ~cvMutex
    /\ cvMutex' = TRUE
    /\ bpc' = "pred"
    /\ UNCHANGED <<whileLoop, done, cvData, cvStop, cb, cvMain, sets>>
    /\ useAfter' = (useAfter \/ MembersGone)
    /\ UNCHANGED dpc
    /\ UNCHANGED <<stopVars, poolVars, lifeVars>>

\* A condition variable may wake a waiter without any notification.
BodySpuriousWake ==
    /\ bpc = "blocked"
    /\ bpc' = "relock"
    /\ UNCHANGED <<whileLoop, done, cvMutex, cvData, cvStop, cb, cvMain, sets>>
    /\ UNCHANGED <<dpc, useAfter>>
    /\ UNCHANGED <<stopVars, poolVars, lifeVars>>

\* The wait has returned: LOG, and the lock's scope ends.
BodyAfter ==
    /\ bpc = "after"
    /\ cvMutex' = FALSE
    /\ bpc' = "test"
    /\ UNCHANGED <<whileLoop, done, cvData, cvStop, cb, cvMain, sets>>
    /\ useAfter' = (useAfter \/ MembersGone)
    /\ UNCHANGED dpc
    /\ UNCHANGED <<stopVars, poolVars, lifeVars>>

\* A body that returns while its callback is running on another thread
BodyExitNoWait ==
    /\ bpc = "exit"
    /\ cb' = IF cb = "running" THEN cb ELSE "gone"
    /\ bpc' = "done"
    /\ UNCHANGED <<whileLoop, done, cvMutex, cvData, cvStop, cvMain, sets>>
    /\ UNCHANGED <<dpc, useAfter>>
    /\ UNCHANGED <<stopVars, poolVars, lifeVars>>

\* The body returns: ~stop_callback deregisters the callback, and waits
\* while its action is running on the stopping thread.
BodyExit ==
    /\ bpc = "exit"
    /\ cb # "running"
    /\ cb' = "gone"
    /\ bpc' = "done"
    /\ UNCHANGED <<whileLoop, done, cvMutex, cvData, cvStop, cvMain, sets>>
    /\ UNCHANGED <<dpc, useAfter>>
    /\ UNCHANGED <<stopVars, poolVars, lifeVars>>

BodyStep ==
    \/ BodyRegister
    \/ BodyTest
    \/ BodyLock
    \/ BodyPred
    \/ BodyWait
    \/ BodyRelock
    \/ BodyAfter
    \/ BodyExit
    \/ BodyCrash

CvNext ==
    \/ CvStart
    \/ \E d \in BOOLEAN : CvSetData(d)
    \/ CvRequestStop
    \/ CvCallback
    \/ CvJoinReturns
    \/ CvDtorDerived
    \/ CvDtorStop
    \/ CvDtorMembers
    \/ CvDtorJoin
    \/ BodyStep
    \/ BodySpuriousWake

\* C6: a blocking worker never loses a stop request: once request_stop()
\* has set the flag of a started worker, the body leaves the wait and
\* returns, whatever the body was doing when the flag was set.
C6_StopNeverLost == (cvStop /\ bpc # "idle") ~> (bpc = "done")


\* C25: the body never returns from its function while main is executing
\* the body's callback inside request_stop(): the destruction of the
\* stop_callback at the end of the body waits for the running action.
C25_DestroyWaitsForAction ==
    /\ (cb = "running" => bpc # "done")
    /\ (cvMain = "sweep" => cb = "running")

\* The body has left its loop and is held in the destruction of its
\* callback while main runs the callback's action.
C25_Witness ==
    /\ bpc = "exit"
    /\ cb = "running"
    /\ cvMain = "sweep"

\* C32: in ex6 the worker thread has terminated before the object's mutex,
\* condition variable and data are destroyed, and the body never locks the
\* mutex, waits on the condition variable or calls taskComplete() after
\* they (or the derived class's override) have been destroyed.
C32_JoinedBeforeMembersDie ==
    /\ ~useAfter
    /\ (MembersGone => bpc \in {"idle", "done"})

\* C34: in ex6 a started worker whose data is set by successive setData()
\* calls completes: once setData() has written the value that makes
\* taskComplete() true, the body eventually observes it (done) and leaves
\* its loop without a stop request, even though later setData() calls
\* overwrite the data before the body re-evaluates its predicate. A stop
\* request or the destruction of the worker coming first is not counted
\* against the statement.
C34_TargetObserved ==
    (whileLoop /\ cvData /\ bpc # "idle" /\ ~cvStop /\ dpc = "alive")
        ~> (done \/ cvStop \/ dpc # "alive")

(***************************************************************************)
(* Part 4: one worker object (ex5 SimpleWorkerThrad, ex7 WorkerThread) and *)
(* the thread that owns it. A body is the polling loop of ex5; each body   *)
(* polls a stop token: in ex7 the one its own thread hands to it, in ex5    *)
(* the one it reads from the member mThread when it begins.                *)
(***************************************************************************)
Bodies == 1..MaxStarts

LifeInitWith(passed) ==
    /\ tokenPassed = passed
    /\ ltok = [g \in Bodies |-> 0]
    /\ dtorAlive = FALSE
    /\ lbody = [g \in Bodies |-> "none"]
    /\ lflag = [g \in Bodies |-> FALSE]
    /\ held = 0
    /\ mJoinable = FALSE
    /\ lpc = "idle"
    /\ lblock = FALSE
    /\ spawned = 0
    /\ tmp = 0
    /\ earlyStop = FALSE
    /\ waited = {}

\* ex7, where the body is handed the token of its own thread
LifeInit == LifeInitWith(TRUE)

\* A body's thread is running its function.
Alive(g) == lbody[g] \notin {"none", "done"}

\* start(): mThread = std::jthread(body). The temporary jthread is
\* constructed first, and its thread runs the body from then on.
LifeStart ==
    /\ lpc = "idle"
    /\ spawned < MaxStarts
    /\ spawned' = spawned + 1
    /\ lbody' = [lbody EXCEPT ![spawned + 1] = "bind"]
    /\ tmp' = spawned + 1
    /\ lpc' = "assign"
    /\ UNCHANGED <<lflag, held, mJoinable, lblock, earlyStop, waited>>
    /\ UNCHANGED <<ltok, tokenPassed, dtorAlive>>
    /\ UNCHANGED <<stopVars, poolVars, cvVars>>

\* jthread::operator=(jthread&&): if (joinable()) { request_stop();
\* join(); } and then the temporary's thread and stop state are taken over.
LifeAssign ==
    /\ lpc = "assign"
    /\ IF mJoinable
       THEN /\ lflag' = [lflag EXCEPT ![held] = TRUE]
            /\ lpc' = "assignJoin"
            /\ UNCHANGED <<held, mJoinable, tmp>>
       ELSE /\ held' = tmp
            /\ mJoinable' = TRUE
            /\ tmp' = 0
            /\ lpc' = "idle"
            /\ UNCHANGED lflag
    /\ UNCHANGED <<lbody, lblock, spawned, earlyStop, waited>>
    /\ UNCHANGED <<ltok, tokenPassed, dtorAlive>>
    /\ UNCHANGED <<stopVars, poolVars, cvVars>>

\* The join() of the assignment returns when the old body has returned.
LifeAssignJoin ==
    /\ lpc = "assignJoin"
    /\ lbody[held] = "done"
    /\ held' = tmp
    /\ tmp' = 0
    /\ lpc' = "idle"
    /\ UNCHANGED <<lbody, lflag, mJoinable, lblock, spawned, earlyStop,
                   waited>>
    /\ UNCHANGED <<ltok, tokenPassed, dtorAlive>>
    /\ UNCHANGED <<stopVars, poolVars, cvVars>>

\* A stop() that, on a worker without a stop state, leaves a stop pending
\* for the first thread and waits for it if asked to block
LifeStopPending(block) ==
    /\ lpc = "idle"
    /\ lflag' = [lflag EXCEPT ![IF held # 0 THEN held ELSE 1] = TRUE]
    /\ lpc' = IF block THEN "join" ELSE "idle"
    /\ lblock' = block
    /\ earlyStop' = (earlyStop \/ held = 0)
    /\ UNCHANGED <<lbody, held, mJoinable, spawned, tmp, waited>>
    /\ UNCHANGED <<ltok, tokenPassed, dtorAlive>>
    /\ UNCHANGED <<stopVars, poolVars, cvVars>>

\* stop(block): if (stop_possible()) { request_stop(); if (block) join(); }
LifeStop(block) ==
    /\ lpc = "idle"
    /\ IF held # 0
       THEN /\ lflag' = [lflag EXCEPT ![held] = TRUE]
            /\ lpc' = IF block THEN "join" ELSE "idle"
            /\ lblock' = block
            /\ UNCHANGED earlyStop
       ELSE /\ earlyStop' = TRUE
            /\ UNCHANGED <<lflag, lpc, lblock>>
    /\ UNCHANGED <<lbody, held, mJoinable, spawned, tmp, waited>>
    /\ UNCHANGED <<ltok, tokenPassed, dtorAlive>>
    /\ UNCHANGED <<stopVars, poolVars, cvVars>>

\* join(): if (mThread.joinable()) mThread.join();
LifeJoin ==
    /\ lpc = "idle"
    /\ mJoinable
    /\ lpc' = "join"
    /\ lblock' = FALSE
    /\ UNCHANGED <<lbody, lflag, held, mJoinable, spawned, tmp, earlyStop,
                   waited>>
    /\ UNCHANGED <<ltok, tokenPassed, dtorAlive>>
    /\ UNCHANGED <<stopVars, poolVars, cvVars>>

\* A join() that returns while the body is still running
LifeJoinNoWait ==
    /\ lpc = "join"
    /\ mJoinable
    /\ mJoinable' = FALSE
    /\ waited' = IF lblock THEN waited \cup {held} ELSE waited
    /\ lblock' = FALSE
    /\ lpc' = "idle"
    /\ UNCHANGED <<lbody, lflag, held, spawned, tmp, earlyStop>>
    /\ UNCHANGED <<ltok, tokenPassed, dtorAlive>>
    /\ UNCHANGED <<stopVars, poolVars, cvVars>>

\* mThread.join() in stop(true) and in join(): returns when the body has
\* returned; the thread is no longer joinable, the stop state stays.
LifeJoinReturns ==
    /\ lpc = "join"
    /\ mJoinable
    /\ lbody[held] = "done"
    /\ mJoinable' = FALSE
    /\ waited' = IF lblock THEN waited \cup {held} ELSE waited
    /\ lblock' = FALSE
    /\ lpc' = "idle"
    /\ UNCHANGED <<lbody, lflag, held, spawned, tmp, earlyStop>>
    /\ UNCHANGED <<ltok, tokenPassed, dtorAlive>>
    /\ UNCHANGED <<stopVars, poolVars, cvVars>>

\* mThread.join() on a thread that is not joinable raises
\* std::system_error out of stop(true).
LifeJoinThrows ==
    /\ lpc = "join"
    /\ ~mJoinable
    /\ lpc' = "thrown"
    /\ lblock' = FALSE
    /\ UNCHANGED <<lbody, lflag, held, mJoinable, spawned, tmp, earlyStop,
                   waited>>
    /\ UNCHANGED <<ltok, tokenPassed, dtorAlive>>
    /\ UNCHANGED <<stopVars, poolVars, cvVars>>

\* A destructor that lets go of a running thread
LifeDestroyDetach ==
    /\ lpc \in {"idle", "thrown"}
    /\ lflag' = IF held # 0 THEN [lflag EXCEPT ![held] = TRUE] ELSE lflag
    /\ lpc' = "gone"
    /\ UNCHANGED <<lbody, held, mJoinable, lblock, spawned, tmp, earlyStop,
                   waited>>
    /\ dtorAlive' = (mJoinable /\ Alive(held))
    /\ UNCHANGED <<ltok, tokenPassed>>
    /\ UNCHANGED <<stopVars, poolVars, cvVars>>

\* The destructor, at the end of the owner's scope or while an exception
\* out of stop(true) unwinds it: stop(); then the member mThread is
\* destroyed: ~jthread is if (joinable()) { request_stop(); join(); }
LifeDestroy ==
    /\ lpc \in {"idle", "thrown"}
    /\ lflag' = IF held # 0 THEN [lflag EXCEPT ![held] = TRUE] ELSE lflag
    /\ lpc' = IF mJoinable THEN "dtorJoin" ELSE "gone"
    /\ UNCHANGED <<lbody, held, mJoinable, lblock, spawned, tmp, earlyStop,
                   waited>>
    /\ dtorAlive' = (mJoinable /\ Alive(held))
    /\ UNCHANGED <<ltok, tokenPassed>>
    /\ UNCHANGED <<stopVars, poolVars, cvVars>>

\* The join() of ~jthread returns, and the object is gone.
LifeDtorJoin ==
    /\ lpc = "dtorJoin"
    /\ lbody[held] = "done"
    /\ mJoinable' = FALSE
    /\ lpc' = "gone"
    /\ UNCHANGED <<lbody, lflag, held, lblock, spawned, tmp, earlyStop,
                   waited>>
    /\ UNCHANGED <<ltok, tokenPassed, dtorAlive>>
    /\ UNCHANGED <<stopVars, poolVars, cvVars>>

\* The stop state a body's token refers to has had a stop requested.
StopSeen(g) == ltok[g] # 0 /\ lflag[ltok[g]]

\* The body begins. ex7: jthread passes the token of the new thread's own
\* stop state. ex5: the body reads mThread.get_stop_token(), which start()
\* may not have assigned yet: the read is not ordered with the assignment
\* and yields the stop state mThread has before it or after it (none
\* before the first start()).
LifeBind(g) ==
    /\ lbody[g] = "bind"
    /\ ltok' = [ltok EXCEPT ![g] = IF tokenPassed THEN g ELSE held]
    /\ lbody' = [lbody EXCEPT ![g] = "poll"]
    /\ UNCHANGED <<lflag, held, mJoinable, lpc, lblock, spawned, tmp,
                   earlyStop, waited, tokenPassed, dtorAlive>>
    /\ UNCHANGED <<stopVars, poolVars, cvVars>>

\* while (!token.stop_requested())
LifePoll(g) ==
    /\ lbody[g] = "poll"
    /\ lbody' = [lbody EXCEPT ![g] = IF StopSeen(g) THEN "pause" ELSE "dot"]
    /\ UNCHANGED <<lflag, held, mJoinable, lpc, lblock, spawned, tmp,
                   earlyStop, waited>>
    /\ UNCHANGED <<ltok, tokenPassed, dtorAlive>>
    /\ UNCHANGED <<stopVars, poolVars, cvVars>>

\* DOT(mColour); sleep_for(100ms)
LifeDot(g) ==
    /\ lbody[g] = "dot"
    /\ lbody' = [lbody EXCEPT ![g] = "poll"]
    /\ UNCHANGED <<lflag, held, mJoinable, lpc, lblock, spawned, tmp,
                   earlyStop, waited>>
    /\ UNCHANGED <<ltok, tokenPassed, dtorAlive>>
    /\ UNCHANGED <<stopVars, poolVars, cvVars>>

\* The deliberate pause after the loop, and the body returns.
LifeLeave(g) ==
    /\ lbody[g] = "pause"
    /\ lbody' = [lbody EXCEPT ![g] = "done"]
    /\ UNCHANGED <<lflag, held, mJoinable, lpc, lblock, spawned, tmp,
                   earlyStop, waited>>
    /\ UNCHANGED <<ltok, tokenPassed, dtorAlive>>
    /\ UNCHANGED <<stopVars, poolVars, cvVars>>

LifeNext ==
    \/ LifeStart
    \/ LifeAssign
    \/ LifeAssignJoin
    \/ \E block \in BOOLEAN : LifeStop(block)
    \/ LifeJoin
    \/ LifeJoinReturns
    \/ LifeJoinThrows
    \/ LifeDestroy
    \/ LifeDtorJoin
    \/ \E g \in Bodies : LifeBind(g)
    \/ \E g \in Bodies : LifePoll(g)
    \/ \E g \in Bodies : LifeDot(g)
    \/ \E g \in Bodies : LifeLeave(g)

\* C15: a second start() on a started worker is rejected: no second body is
\* spawned, the first body is not told to stop by start(), and two bodies
\* of the worker never run at the same time.
C15_SecondStartRejected ==
    /\ \A g, h \in Bodies : Alive(g) /\ Alive(h) => g = h
    /\ (tmp # 0 => ~mJoinable)
    /\ lpc # "assignJoin"

\* C16: stop(block) is idempotent in every worker state: a stop() on a
\* worker already stopped, or already joined, returns normally and raises
\* no error.
C16_StopIdempotent == lpc # "thrown"

\* C17: stop() or stop(true) on a worker that was never started is a
\* no-op: while nothing was started no stop is requested and the caller is
\* not blocked, no stop is ever requested on a thread that does not exist
\* yet, and the thread a start() creates has no stop requested when
\* start() takes it over.
C17_EarlyStopNoOp ==
    /\ spawned = 0 =>
          /\ lpc \in {"idle", "gone"}
          /\ \A g \in Bodies : ~lflag[g]
    /\ \A g \in Bodies : lbody[g] = "none" => ~lflag[g]
    /\ tmp # 0 => ~lflag[tmp]

\* A worker stopped before its start() runs its body with no stop seen.
C17_Witness ==
    /\ earlyStop
    /\ spawned = 1
    /\ held = 1
    /\ lbody[1] = "dot"
    /\ ~StopSeen(1)

\* C18: on a started worker stop(true) returns only after the worker's
\* thread has terminated: every body on which a stop(true) has returned has
\* returned, with its stop requested. (stop(false) returns without waiting;
\* see the witness.)
C18_BlockingStopWaits ==
    \A g \in waited : lbody[g] = "done" /\ lflag[g]

\* A stop(true) has returned on a body, and a stop(false) has returned on
\* a later one that is still running.
C18_Witness ==
    /\ waited # {}
    /\ lpc = "idle"
    /\ held \notin waited
    /\ held # 0
    /\ lflag[held]
    /\ Alive(held)

\* C19: the destruction of a worker object never completes while a thread
\* of the worker is still alive.
C19_DtorJoins ==
    lpc = "gone" => \A g \in Bodies : ~Alive(g)

\* A worker destroyed while its thread was running: the destruction has
\* completed, with the stop requested and the body returned.
C19_Witness ==
    /\ lpc = "gone"
    /\ dtorAlive
    /\ lflag[held]
    /\ lbody[held] = "done"

\* C31: in ex5 the token the body polls is always the token of the stop
\* state of its own thread, the one stop() signals once start() has
\* returned: the body never polls a token with no stop state, however its
\* first steps interleave with start() storing the thread into mThread.
C31_PollsOwnToken ==
    ~tokenPassed =>
        \A g \in Bodies : lbody[g] \notin {"none", "bind"} => ltok[g] = g

(***************************************************************************)
(* Specifications.                                                         *)
(***************************************************************************)
InitStop ==
    /\ StopInit
    /\ PoolInitWith(MainFinishEarly, 0, "idle")
    /\ CvInitWith(FALSE)
    /\ LifeInit

SpecStop == InitStop /\ [][StopNext]_vars

\* The body's thread keeps being scheduled.
FairStop == SpecStop /\ WF_vars(WorkerBody)

Init == StopInit /\ PoolInit /\ CvInitWith(FALSE) /\ LifeInit

Spec == Init /\ [][PoolNext]_vars

\* Every started body keeps being scheduled and gets the mutex when it is
\* free again and again; main, holding the mutex in the push, goes on.
\* Nothing obliges main to make another call, and nothing obliges a
\* condition variable to wake a waiter spuriously.
Fairness ==
    /\ \A w \in Primaries : SF_vars(WorkerStep(w))
    /\ WF_vars(CallPush)

FairSpec == Spec /\ Fairness

\* main of ex7, for every threadCount up to MaxThreads
InitMain ==
    /\ StopInit
    /\ \E tc \in 0..MaxThreads : PoolInitWith(MainFinishEarly, tc, "create")
    /\ CvInitWith(FALSE)
    /\ LifeInit

SpecMain == InitMain /\ [][MainNext]_vars

\* main keeps running (its sleeps end, it gets the mutex when it is free
\* again and again), and so does every started body.
FairMain ==
    /\ SpecMain
    /\ SF_vars(MainThread)
    /\ \A w \in Workers : SF_vars(WorkerStep(w))

\* A blocking worker of ex4 or ex6 and its main
InitCv ==
    /\ StopInit
    /\ PoolInitWith(MainFinishEarly, 0, "idle")
    /\ CvInit
    /\ LifeInit

SpecCv == InitCv /\ [][CvNext]_vars

\* The body keeps being scheduled, and main, inside request_stop(), runs the
\* callback. Nothing obliges main to write the data or to request the stop,
\* and nothing obliges the condition variable to wake the body spuriously.
FairCv == SpecCv /\ WF_vars(BodyStep) /\ WF_vars(CvCallback)

\* One worker object of ex5/ex7 and its owner
InitLife ==
    /\ StopInit
    /\ PoolInitWith(MainFinishEarly, 0, "idle")
    /\ CvInitWith(FALSE)
    /\ \E passed \in BOOLEAN : LifeInitWith(passed)

SpecLife == InitLife /\ [][LifeNext]_vars

=============================================================================
